---- MODULE Spec2Model ----
(***************************************************************************)
(* Model of the local sandbox manager (local_sandbox_manager.py): the port *)
(* allocator, the manager's cache of sandboxes, and the container engine   *)
(* (containers, their labels and port bindings, named volumes) the manager *)
(* drives.  Every manager operation is one action.                         *)
(***************************************************************************)
EXTENDS Integers, Sequences, FiniteSets, TLC

\* ------------------------------------------------------------------------
\* Bounds of the model
\* ------------------------------------------------------------------------
NumProjects == 2
MaxTime == 2
MaxRange == 2
MaxAtoms == 3

Projects == 1..NumProjects
\* the project field of an operation that names no project
NoProject == NumProjects + 1

\* the clock counts seconds; timedelta(hours=h) is h * SecondsPerHour
SecondsPerHour == 3600

\* config.auto_stop_hours values a caller passes
AutoStopHours == {1}

\* engine faults a create_sandbox call can meet besides the ones the engine
\* state decides: none, the volume cannot be looked up or created,
\* containers.run fails before the container object exists, containers.run
\* fails when the created container is started
EngineFaults == {"none", "volume", "create", "start"}

\* engine faults a container.start() call can meet
StartFaults == {"none", "start"}

\* _wait_for_services: the budgets and delays of the readiness wait (seconds)
SupervisorBudget == 30
SupervisorPoll == 2
ServiceBudget == 120
ServicePoll == 3
SettleDelay == 5

\* ------------------------------------------------------------------------
\* Names
\* ------------------------------------------------------------------------
\* dict order of PortManager.port_ranges
Roles == <<"vnc", "novnc", "browser_api", "file_server">>
RoleSet == {Roles[i] : i \in 1..Len(Roles)}

DefaultPortRanges ==
    [vnc |-> <<15901, 16000>>, novnc |-> <<16080, 16179>>,
     browser_api |-> <<17788, 17887>>, file_server |-> <<18080, 18179>>]

\* the container ports the image listens on
InternalPorts == {5901, 6080, 7788, 8080}

\* create_sandbox's container_config['ports']: container port of a role
container_port ==
    [vnc |-> 5901, novnc |-> 6080, browser_api |-> 7788, file_server |-> 8080]

\* _extract_ports_from_container's port_mapping: role of a container port
port_mapping_swapped ==
    (5901 :> "novnc") @@ (6080 :> "vnc") @@ (7788 :> "browser_api") @@ (8080 :> "file_server")

port_mapping ==
    (5901 :> "vnc") @@ (6080 :> "novnc") @@ (7788 :> "browser_api") @@ (8080 :> "file_server")

container_name(pid) == <<"suna-sandbox", pid>>
volume_name(pid) == <<"suna-workspace", pid>>

\* datetime.isoformat / datetime.fromisoformat on label values
isoformat(t) == <<"iso", t>>
fromisoformat(s) ==
    IF Len(s) = 2 /\ s[1] = "iso" THEN [ok |-> TRUE, value |-> s[2]]
    ELSE [ok |-> FALSE, value |-> 0]

Range(f) == {f[x] : x \in DOMAIN f}

\* the value of a local variable: the one element of a set made of one value
Only(S) == CHOOSE x \in S : TRUE
EmptyPorts == [r \in {} |-> 0]

\* ------------------------------------------------------------------------
\* State
\* ------------------------------------------------------------------------
VARIABLES
    port_ranges,      \* PortManager.port_ranges: role -> <<start, end>>
    allocated_ports,  \* PortManager.allocated_ports
    containers,       \* LocalSandboxManager.containers: project -> entry or NoEntry
    engine,           \* the engine's containers: project (by container name) -> container or NoContainer
    volumes,          \* the engine's named volumes
    now,              \* the wall clock read by datetime.now(), in seconds
    pending,          \* the create_sandbox calls suspended in _wait_for_services
    tool,             \* the LocalSandboxToolsBase of each project
    files,            \* the files under /workspace in each project's volume
    workspaces_cache, \* LocalApiAdapter._workspaces_cache: the projects it holds a workspace of
    sweeper,          \* the periodic cleanup tasks: where each is and when its sleep ends
    wait,             \* a _wait_for_services call followed probe by probe
    last              \* the operation just carried out and how it ended

vars == <<port_ranges, allocated_ports, containers, engine, volumes, now, pending,
          tool, files, workspaces_cache, sweeper, wait, last>>

NoEntry == [present |-> FALSE]
NoContainer == [exists |-> FALSE]
NoTask == [present |-> FALSE]
NoWorkspace == [present |-> FALSE]
NoSandbox == [present |-> FALSE]

\* LocalSandboxToolsBase.__init__: _sandbox = None, _initialized = False
NewTool == [sandbox |-> NoSandbox, initialized |-> FALSE]

\* the periodic cleanup tasks of the process: the one local_api.py creates
\* when it is loaded and start_cleanup_task; each starts with a sweep
Sweepers == {"api", "manager"}
NewSweeper == [pc |-> "sleeping", wake |-> 0]

\* no _wait_for_services call is being followed
NoWait ==
    [phase |-> "idle", t |-> 0, supervisord_ready |-> FALSE, services_ready |-> {},
     probed |-> {}, seen_before |-> {}, timed_out |-> FALSE]

Cached(cache, pid) == cache[pid].present
Exists(eng, pid) == eng[pid].exists

\* container.attrs['NetworkSettings']['Ports']: host ports are published
\* only while the container runs
NetworkPorts(c) ==
    IF c.status = "running" THEN c.host_config ELSE [ip \in {} |-> 0]

\* ------------------------------------------------------------------------
\* PortManager
\* ------------------------------------------------------------------------
\* the inner for loop of allocate_ports: scan the range upwards and stop at
\* the first port that is not allocated (as a set: empty when there is none)
RECURSIVE ScanRange(_, _, _)
ScanRange(port, end, alloc) ==
    IF port > end THEN {}
    ELSE IF port \notin alloc THEN {port}
    ELSE ScanRange(port + 1, end, alloc)

first_free_ignoring_use(ranges, alloc, r) ==
    IF ranges[r][1] <= ranges[r][2] THEN {ranges[r][1]} ELSE {}

first_free(ranges, alloc, r) == ScanRange(ranges[r][1], ranges[r][2], alloc)

RECURSIVE AllocLoop(_, _, _, _)
AllocLoop(ranges, i, alloc, ports) ==
    IF i > Len(Roles) THEN [ok |-> TRUE, ports |-> ports, allocated |-> alloc]
    ELSE LET r == Roles[i]
             f == first_free(ranges, alloc, r)
         IN  IF f = {}
             THEN \* raise RuntimeError: what was added stays added
                  [ok |-> FALSE, ports |-> ports, allocated |-> alloc]
             ELSE LET p == CHOOSE x \in f : TRUE
                  IN  AllocLoop(ranges, i + 1, alloc \cup {p}, ports @@ (r :> p))

allocate_ports(ranges, alloc) == AllocLoop(ranges, 1, alloc, EmptyPorts)

release_all(alloc, ports) == {}

release_nothing(alloc, ports) == alloc

release_ports(alloc, ports) == alloc \ Range(ports)

\* ------------------------------------------------------------------------
\* LocalSandboxManager: helpers
\* ------------------------------------------------------------------------
\* _extract_ports_from_container: the published host port of every container
\* port that port_mapping knows, under the role's name
_extract_ports_from_container(c) ==
    LET np == NetworkPorts(c)
        known == {ip \in DOMAIN np : ip \in DOMAIN port_mapping}
    IN  [r \in {port_mapping[ip] : ip \in known} |->
            np[CHOOSE ip \in known : port_mapping[ip] = r]]

\* _format_ports
_format_ports(ports) ==
    [r \in DOMAIN ports |->
        [internal |-> IF r \in DOMAIN container_port THEN container_port[r] ELSE 8000,
         external |-> ports[r]]]

url_scheme ==
    [vnc |-> "vnc://localhost:", novnc |-> "http://localhost:",
     browser_api |-> "http://localhost:", file_server |-> "http://localhost:"]

\* _generate_service_urls: indexes ports by each of the four roles
\* (KeyError when one is missing)
CanGenerateUrls(ports) == RoleSet \subseteq DOMAIN ports
_generate_service_urls(ports) == [r \in RoleSet |-> <<url_scheme[r], ports[r]>>]

\* the container a create_sandbox call asks the engine to run
NewContainer(pid, ports, hours, t, status) ==
    [exists |-> TRUE,
     status |-> status,
     labels |-> [project_id |-> pid,
                 created_at |-> isoformat(t),
                 auto_stop_at |-> isoformat(t + hours * SecondsPerHour)],
     host_config |-> [ip \in InternalPorts |->
                        ports[CHOOSE r \in RoleSet : container_port[r] = ip]]]

\* the engine refuses to start a container when one of its host ports is
\* published by another running container
HostPortBusy(eng, pid, hc) ==
    \E q \in Projects :
        /\ q # pid
        /\ Exists(eng, q)
        /\ eng[q].status = "running"
        /\ Range(eng[q].host_config) \cap Range(hc) # {}

NoView == [present |-> FALSE]

\* ------------------------------------------------------------------------
\* _wait_for_services
\* ------------------------------------------------------------------------
\* what the probes inside the container answer: the second after entry from
\* which "pgrep supervisord" exits 0 and, for each service, the second from
\* which "nc -z localhost <port>" exits 0; a probe that fails or raises counts
\* as not ready
NeverAnswers == ServiceBudget + 1
AnswerTimes == {0, NeverAnswers}
\* the services that come up: all, the two display services only, none
ServiceSets == {RoleSet, {"vnc", "novnc"}, {}}
Probes ==
    {[supervisor |-> s,
      services |-> [r \in RoleSet |-> IF r \in up THEN 0 ELSE NeverAnswers]] :
        s \in AnswerTimes, up \in ServiceSets}
AllAnswer == [supervisor |-> 0, services |-> [r \in RoleSet |-> 0]]

\* lines 430-440: poll the supervisor every SupervisorPoll seconds until it
\* answers or SupervisorBudget seconds have passed since entry
RECURSIVE SupervisorLoop(_, _)
SupervisorLoop(probe, t) ==
    IF ~(t < SupervisorBudget) THEN [t |-> t, ready |-> FALSE]
    ELSE IF probe.supervisor <= t THEN [t |-> t, ready |-> TRUE]
    ELSE SupervisorLoop(probe, t + SupervisorPoll)

\* lines 455-480: probe every service not yet seen ready, every ServicePoll
\* seconds, until all are ready or timeout seconds have passed since entry
RECURSIVE ServiceLoop(_, _, _, _)
ServiceLoop(probe, timeout, t, services_ready) ==
    IF ~(t < timeout)
    THEN [t |-> t, services_ready |-> services_ready, timed_out |-> TRUE]
    ELSE LET seen == services_ready \cup
                        {r \in RoleSet \ services_ready : probe.services[r] <= t}
         IN  IF seen = RoleSet
             THEN [t |-> t, services_ready |-> seen, timed_out |-> FALSE]
             ELSE ServiceLoop(probe, timeout, t + ServicePoll, seen)

raise_on_timeout(probe, sup, svc) == sup.ready /\ ~svc.timed_out

\* lines 442-443 and 477-480: a supervisor that never answered and services
\* that are missing at the timeout are logged; the call returns all the same
returns_normally(probe, sup, svc) == TRUE

_wait_for_services(probe) ==
    LET sup == SupervisorLoop(probe, 0)
        svc == ServiceLoop(probe, ServiceBudget, sup.t, {})
    IN  [returned |-> returns_normally(probe, sup, svc),
         elapsed |-> svc.t + SettleDelay,
         supervisord_ready |-> sup.ready,
         services_ready |-> svc.services_ready,
         timed_out |-> svc.timed_out]

\* how the wait ends for each way the probes can answer
WaitOutcome == [probe \in Probes |-> _wait_for_services(probe)]

\* ------------------------------------------------------------------------
\* get_sandbox
\* ------------------------------------------------------------------------
\* the cache-hit branch: reload the handle and compose the view
GetHit(cache, eng, pid) ==
    LET info == cache[pid] IN
    IF ~Exists(eng, info.container)
    THEN [result |-> "engine_not_found", view |-> NoView, containers |-> cache]
    ELSE IF ~CanGenerateUrls(info.ports)
    THEN [result |-> "key_error", view |-> NoView, containers |-> cache]
    ELSE [result |-> "ok",
          view |-> [present |-> TRUE,
                    name |-> container_name(info.container),
                    status |-> eng[info.container].status,
                    ports |-> _format_ports(info.ports),
                    created_at |-> isoformat(info.created_at),
                    urls |-> _generate_service_urls(info.ports)],
          containers |-> cache]

get_sandbox(cache, eng, pid) ==
    IF Cached(cache, pid) THEN GetHit(cache, eng, pid)
    ELSE IF ~Exists(eng, pid)
    THEN [result |-> "not_found", view |-> NoView, containers |-> cache]
    ELSE IF eng[pid].labels.project_id # pid
    THEN [result |-> "not_found", view |-> NoView, containers |-> cache]
    ELSE LET created == fromisoformat(eng[pid].labels.created_at) IN
         IF ~created.ok
         THEN [result |-> "bad_timestamp", view |-> NoView, containers |-> cache]
         ELSE GetHit([cache EXCEPT ![pid] =
                        [present |-> TRUE,
                         container |-> pid,
                         ports |-> _extract_ports_from_container(eng[pid]),
                         created_at |-> created.value,
                         volume_name |-> volume_name(pid)]],
                     eng, pid)

\* ------------------------------------------------------------------------
\* delete_sandbox, on the manager's state st = [allocated, containers,
\* engine, volumes]
\* ------------------------------------------------------------------------
keep_volume(vols, name) == vols

\* lines 298-304: remove the volume, ignoring that it is not there
remove_volume(vols, name) == vols \ {name}

keep_entry(cache, pid) == cache

\* del self.containers[project_id]
drop_entry(cache, pid) == [cache EXCEPT ![pid] = NoEntry]

delete_sandbox(st, pid) ==
    IF ~Cached(st.containers, pid) THEN [result |-> "not_found", st |-> st]
    ELSE LET info == st.containers[pid] IN
         IF ~Exists(st.engine, info.container)
         THEN \* container.stop() fails and is ignored; container.remove raises
              [result |-> "engine_not_found", st |-> st]
         ELSE [result |-> "ok",
               st |-> [st EXCEPT
                         !.allocated = release_ports(st.allocated, info.ports),
                         !.containers = drop_entry(st.containers, pid),
                         !.engine = [st.engine EXCEPT ![info.container] = NoContainer],
                         !.volumes = remove_volume(st.volumes, info.volume_name)]]

\* the state the calls work on: the manager's, the engine's, and the
\* projects in the adapter's _workspaces_cache
ManagerState ==
    [allocated |-> allocated_ports, containers |-> containers,
     engine |-> engine, volumes |-> volumes, workspaces |-> workspaces_cache]

\* the files that are left when the volumes vols are: a removed volume takes
\* its files with it
FilesIn(vols) ==
    [p \in Projects |-> IF volume_name(p) \in vols THEN files[p] ELSE {}]

\* ------------------------------------------------------------------------
\* Initial state: a new manager on an engine without sandboxes
\* ------------------------------------------------------------------------
\* last: the operation, its project and how it ended; pre: for a successful
\* create_sandbox, and for the delete_sandbox that directly follows it on the
\* same project, the allocator's in-use set when that create was called;
\* after: for a delete_sandbox, the successful operation on the same project
\* it directly follows ("create", "delete" or "-"), and for a start_sandbox
\* "probed" when it ran _wait_for_services; reply: for a command
\* call, the result structure it returned; arg: the path argument of a call
\* that takes one; text: the content argument of a write_file; out: the path
\* or content a call returned; sent: the commands the call passed to the
\* engine's exec; inner: how the manager's operation under a request of the
\* HTTP API ended; swept: for an expiry sweep, the projects its first loop
\* found expired
NoReply == [exit_code |-> 0, success |-> FALSE, stderr |-> <<>>]
Done(op, pid, result) ==
    [op |-> op, pid |-> pid, result |-> result, pre |-> {}, after |-> "-",
     reply |-> NoReply, arg |-> <<>>, text |-> "", out |-> <<>>, sent |-> <<>>,
     inner |-> "-", swept |-> {}]
NoOp == Done("init", NoProject, "ok")

Init ==
    /\ port_ranges = DefaultPortRanges
    /\ allocated_ports = {}
    /\ containers = [p \in Projects |-> NoEntry]
    /\ engine = [p \in Projects |-> NoContainer]
    /\ volumes = {}
    /\ now = 0
    /\ pending = [p \in Projects |-> NoTask]
    /\ tool = [p \in Projects |-> NewTool]
    /\ files = [p \in Projects |-> {}]
    /\ workspaces_cache = {}
    /\ sweeper = [t \in Sweepers |-> NewSweeper]
    /\ wait = NoWait
    /\ last = NoOp

never_rejected(cache, pid) == FALSE

\* lines 119-121: the duplicate check of create_sandbox looks at the cache only
create_rejected(cache, pid) == Cached(cache, pid)

\* create_sandbox on the manager's state st, lines 116-174: everything up to
\* the readiness wait.  "waiting": the container runs and the call is about
\* to await _wait_for_services with the ports it holds
create_until_wait(st, ranges, pid, hours, fault, t) ==
    LET a == allocate_ports(ranges, st.allocated)
        c(status) == NewContainer(pid, a.ports, hours, t, status)
        \* lines 192-196: release the ports and raise again
        failed(result, eng, vols) ==
            [result |-> result, ports |-> a.ports,
             st |-> [st EXCEPT !.allocated = release_ports(a.allocated, a.ports),
                               !.engine = eng, !.volumes = vols]]
        vols == st.volumes \cup {volume_name(pid)}
    IN
    IF create_rejected(st.containers, pid)
    THEN [result |-> "already_exists", ports |-> EmptyPorts, st |-> st]
    ELSE IF ~a.ok
    THEN \* allocate_ports raised before the try block was entered
         [result |-> "ports_exhausted", ports |-> a.ports,
          st |-> [st EXCEPT !.allocated = a.allocated]]
    ELSE IF fault = "volume"
    THEN failed("engine_error", st.engine, st.volumes)
    ELSE IF Exists(st.engine, pid)
    THEN \* containers.run: the name is in use, no container object was made
         failed("name_conflict", st.engine, vols)
    ELSE IF fault = "create"
    THEN failed("engine_error", st.engine, vols)
    ELSE IF fault = "start" \/ HostPortBusy(st.engine, pid, c("created").host_config)
    THEN \* containers.run made the container and failed to start it
         failed("engine_error", [st.engine EXCEPT ![pid] = c("created")], vols)
    ELSE [result |-> "waiting", ports |-> a.ports,
          st |-> [st EXCEPT !.allocated = a.allocated,
                            !.engine = [st.engine EXCEPT ![pid] = c("running")],
                            !.volumes = vols]]

\* lines 178-190: after the readiness wait w, which ended t seconds on the
\* clock; an exception out of the wait takes the except branch
create_after_wait(st, pid, ports, w, t) ==
    IF ~w.returned
    THEN [result |-> "engine_error",
          st |-> [st EXCEPT !.allocated = release_ports(st.allocated, ports)]]
    ELSE [result |-> "ok",
          st |-> [st EXCEPT !.containers = [st.containers EXCEPT ![pid] =
                        [present |-> TRUE,
                         container |-> pid,
                         ports |-> ports,
                         created_at |-> t,
                         volume_name |-> volume_name(pid)]]]]

\* create_sandbox(config), config = (project_id, auto_stop_hours), run to its
\* end with no other call in between
create_sandbox(st, ranges, pid, hours, fault, probe, t) ==
    Only({IF b.result = "waiting"
          THEN create_after_wait(b.st, pid, b.ports, WaitOutcome[probe],
                                 t + WaitOutcome[probe].elapsed)
          ELSE [result |-> b.result, st |-> b.st] :
          b \in {create_until_wait(st, ranges, pid, hours, fault, t)}})

CreateSandbox(pid, hours, fault, probe) ==
    \E r \in {create_sandbox(ManagerState, port_ranges, pid, hours, fault, probe, now)} :
    /\ allocated_ports' = r.st.allocated
    /\ containers' = r.st.containers
    /\ engine' = r.st.engine
    /\ volumes' = r.st.volumes
    /\ last' = [Done("create", pid, r.result) EXCEPT
                    !.pre = IF r.result = "ok" THEN allocated_ports ELSE {}]
    /\ UNCHANGED <<port_ranges, now, pending, tool, files, workspaces_cache, sweeper, wait>>

GetSandbox(pid) ==
    \E g \in {get_sandbox(containers, engine, pid)} :
    /\ containers' = g.containers
    /\ last' = Done("get", pid, g.result)
    /\ UNCHANGED <<port_ranges, allocated_ports, engine, volumes, now, pending, tool, files, workspaces_cache, sweeper, wait>>

\* list_sandboxes: get_sandbox for the project of every labelled container,
\* a failing one is logged and left out
RECURSIVE ListLoop(_, _, _, _)
ListLoop(todo, cache, eng, out) ==
    IF todo = {} THEN [containers |-> cache, sandboxes |-> out]
    ELSE LET pid == CHOOSE p \in todo : TRUE
             g == get_sandbox(cache, eng, pid)
         IN  ListLoop(todo \ {pid}, g.containers, eng,
                      IF g.result = "ok" THEN out @@ (pid :> g.view) ELSE out)

list_sandboxes(cache, eng) ==
    ListLoop({eng[p].labels.project_id : p \in {q \in Projects : Exists(eng, q)}},
             cache, eng, [p \in {} |-> NoView])

ListSandboxes ==
    /\ containers' = list_sandboxes(containers, engine).containers
    /\ last' = Done("list", NoProject, "ok")
    /\ UNCHANGED <<port_ranges, allocated_ports, engine, volumes, now, pending, tool, files, workspaces_cache, sweeper, wait>>

\* start_sandbox on the cache and the engine: lines 256-264 after the
\* get_sandbox of line 255 has ended g
start_found(g, eng, pid, fault, probe) ==
    IF g.result # "ok"
    THEN [result |-> g.result, containers |-> g.containers, engine |-> eng,
          probed |-> FALSE]
    ELSE IF eng[pid].status = "running"
    THEN [result |-> "ok", containers |-> g.containers, engine |-> eng,
          probed |-> FALSE]
    ELSE IF fault = "start" \/ HostPortBusy(eng, pid, eng[pid].host_config)
    THEN \* container.start() raises
         [result |-> "engine_error", containers |-> g.containers, engine |-> eng,
          probed |-> FALSE]
    ELSE [result |-> IF WaitOutcome[probe].returned THEN "ok" ELSE "engine_error",
          containers |-> g.containers,
          engine |-> [eng EXCEPT ![pid].status = "running"],
          probed |-> TRUE]

start_sandbox(cache, eng, pid, fault, probe) ==
    Only({start_found(g, eng, pid, fault, probe) : g \in {get_sandbox(cache, eng, pid)}})

StartSandbox(pid, fault, probe) ==
    \E r \in {start_sandbox(containers, engine, pid, fault, probe)} :
    /\ containers' = r.containers
    /\ engine' = r.engine
    /\ last' = [Done("start", pid, r.result) EXCEPT
                    !.after = IF r.probed THEN "probed" ELSE "-"]
    /\ UNCHANGED <<port_ranges, allocated_ports, volumes, now, pending, tool, files, workspaces_cache, sweeper, wait>>

\* stop_sandbox on the cache and the engine
stop_sandbox(cache, eng, pid) ==
    IF ~Cached(cache, pid)
    THEN [result |-> "not_found", engine |-> eng]
    ELSE IF ~Exists(eng, cache[pid].container)
    THEN [result |-> "engine_not_found", engine |-> eng]
    ELSE [result |-> "ok",
          engine |-> [eng EXCEPT ![cache[pid].container].status =
                        IF @ = "running" THEN "exited" ELSE @]]

StopAndRemoveVolume(pid) ==
    \E r \in {stop_sandbox(containers, engine, pid)} :
    /\ engine' = r.engine
    /\ volumes' = IF r.result = "ok" THEN volumes \ {volume_name(pid)} ELSE volumes
    /\ last' = Done("stop", pid, r.result)
    /\ UNCHANGED <<port_ranges, allocated_ports, containers, now, pending, tool, files, workspaces_cache, sweeper, wait>>

StopSandbox(pid) ==
    \E r \in {stop_sandbox(containers, engine, pid)} :
    /\ engine' = r.engine
    /\ last' = Done("stop", pid, r.result)
    /\ UNCHANGED <<port_ranges, allocated_ports, containers, volumes, now, pending, tool, files, workspaces_cache, sweeper, wait>>

DeleteSandbox(pid) ==
    \E d \in {delete_sandbox(ManagerState, pid)} :
    /\ allocated_ports' = d.st.allocated
    /\ containers' = d.st.containers
    /\ engine' = d.st.engine
    /\ volumes' = d.st.volumes
    /\ last' = [Done("delete", pid, d.result) EXCEPT
                    !.after = IF last.pid = pid /\ last.result = "ok"
                                 /\ last.op \in {"create", "delete"}
                              THEN last.op ELSE "-",
                    !.pre = IF last.pid = pid /\ last.result = "ok"
                               /\ last.op = "create"
                            THEN last.pre ELSE {}]
    /\ files' = FilesIn(d.st.volumes)
    /\ UNCHANGED <<port_ranges, now, pending, tool, workspaces_cache, sweeper, wait>>

\* cleanup_expired_sandboxes, first loop: the projects of the containers
\* whose suna.auto_stop_at label parses and lies before the current time
expired_projects(eng, t) ==
    {eng[p].labels.project_id : p \in
        {q \in Projects :
            /\ Exists(eng, q)
            /\ fromisoformat(eng[q].labels.auto_stop_at).ok
            /\ t > fromisoformat(eng[q].labels.auto_stop_at).value}}

\* a loop that ends at the first delete that fails
none_after_failure(todo, pid) == {}

\* "except Exception" inside the loop: the failure is logged and the loop goes
\* on with the projects that are left
rest_after_failure(todo, pid) == todo \ {pid}

\* second loop: delete_sandbox for each of them, a failure is logged
RECURSIVE CleanupLoop(_, _)
CleanupLoop(todo, st) ==
    IF todo = {} THEN st
    ELSE LET pid == CHOOSE p \in todo : TRUE
             d == delete_sandbox(st, pid)
         IN  CleanupLoop(IF d.result = "ok" THEN todo \ {pid}
                         ELSE rest_after_failure(todo, pid), d.st)

cleanup_expired_sandboxes(st, t) == CleanupLoop(expired_projects(st.engine, t), st)

CleanupExpired ==
    LET st == cleanup_expired_sandboxes(ManagerState, now) IN
    /\ allocated_ports' = st.allocated
    /\ containers' = st.containers
    /\ engine' = st.engine
    /\ volumes' = st.volumes
    /\ last' = [Done("cleanup", NoProject, "ok") EXCEPT
                    !.swept = expired_projects(engine, now)]
    /\ files' = FilesIn(st.volumes)
    /\ UNCHANGED <<port_ranges, now, pending, tool, workspaces_cache, sweeper, wait>>

\* a new LocalSandboxManager on the same engine: empty cache, new PortManager
NewManager ==
    /\ containers' = [p \in Projects |-> NoEntry]
    /\ allocated_ports' = {}
    /\ port_ranges' = DefaultPortRanges
    /\ workspaces_cache' = {}
    /\ last' = Done("new_manager", NoProject, "ok")
    /\ UNCHANGED <<engine, volumes, now, pending, tool, files, sweeper, wait>>

\* the container of a sandbox is removed from the engine by someone else
ExternalRemove(pid) ==
    /\ Exists(engine, pid)
    /\ engine' = [engine EXCEPT ![pid] = NoContainer]
    /\ last' = Done("external_remove", pid, "ok")
    /\ UNCHANGED <<port_ranges, allocated_ports, containers, volumes, now, pending, tool, files, workspaces_cache, sweeper, wait>>

\* a container with the name and the labels of a sandbox is run by someone
\* else, its suna.auto_stop_at label not an ISO time
MalformedTime == <<"never">>

ExternalRun(pid) ==
    /\ ~Exists(engine, pid)
    /\ engine' = [engine EXCEPT ![pid] =
                    [exists |-> TRUE, status |-> "running",
                     labels |-> [project_id |-> pid, created_at |-> isoformat(now),
                                 auto_stop_at |-> MalformedTime],
                     host_config |-> [ip \in InternalPorts |-> 0]]]
    /\ last' = Done("external_run", pid, "ok")
    /\ UNCHANGED <<port_ranges, allocated_ports, containers, volumes, now, pending, tool, files, workspaces_cache, sweeper, wait>>

\* the clock advances by an hour
Tick ==
    /\ now < MaxTime * SecondsPerHour
    /\ now' = now + SecondsPerHour
    /\ last' = Done("tick", NoProject, "ok")
    /\ UNCHANGED <<port_ranges, allocated_ports, containers, engine, volumes, pending, tool, files, workspaces_cache, sweeper, wait>>

\* ------------------------------------------------------------------------
\* LocalApiAdapter (local_api_adapter.py), on the manager's state st.  in is
\* what the engine does during the call: in.hours the auto_stop_hours of a
\* create, in.create and in.start the faults of containers.run and
\* container.start, in.probe the answers of the readiness probes, in.supervisor
\* whether "ps aux" inside the container shows supervisord
\* ------------------------------------------------------------------------
CallInputs ==
    [hours : AutoStopHours, create : EngineFaults, start : StartFaults,
     probe : {AllAnswer}, supervisor : BOOLEAN]

\* LocalWorkspace(project_id, sandbox_info): of the fields copied from the
\* view, the one the callers read
LocalWorkspace(pid, view) ==
    [present |-> TRUE, project_id |-> pid, status |-> view.status]

\* get_workspace lines 103-107 as they would be if only ValueError gave None
none_on_value_error(g) ==
    [raised |-> g.result \notin {"ok", "not_found"}, workspace |-> NoWorkspace]

\* get_workspace lines 103-107: None on ValueError and, after logging, on
\* every other exception
none_on_exception(g) == [raised |-> FALSE, workspace |-> NoWorkspace]

\* get_workspace: the view of get_sandbox as a LocalWorkspace
get_workspace(st, pid) ==
    Only({[raised |-> g.result # "ok" /\ none_on_exception(g).raised,
           workspace |-> IF g.result = "ok" THEN LocalWorkspace(pid, g.view)
                         ELSE none_on_exception(g).workspace,
           st |-> [st EXCEPT !.containers = g.containers,
                             !.workspaces = IF g.result = "ok"
                                            THEN @ \cup {pid} ELSE @]] :
          g \in {get_sandbox(st.containers, st.engine, pid)}})

\* create_workspace lines 78-82, after a create_sandbox that ended c:
\* get_sandbox; exceptions are raised again
created_workspace(c, pid) ==
    IF c.result # "ok"
    THEN [raised |-> TRUE, workspace |-> NoWorkspace, st |-> c.st]
    ELSE Only({[raised |-> ~g.workspace.present, workspace |-> g.workspace,
                st |-> g.st] :
               g \in {get_workspace(c.st, pid)}})

create_workspace(st, ranges, pid, in, t) ==
    Only({created_workspace(c, pid) :
          c \in {create_sandbox(st, ranges, pid, in.hours, in.create, in.probe, t)}})

\* start_workspace: True when start_sandbox (and the refresh of the adapter's
\* own copy, a get_sandbox that start_sandbox has just made) went through,
\* False on every exception
start_workspace(st, pid, in) ==
    Only({[ok |-> r.result = "ok",
           st |-> [st EXCEPT !.containers = r.containers, !.engine = r.engine]] :
          r \in {start_sandbox(st.containers, st.engine, pid, in.start, in.probe)}})

\* get_or_create_workspace lines 217-221 and get_or_start_sandbox lines
\* 60-65, with the workspace and state w a get or create has left: a
\* workspace that is not running is started, whatever start_workspace answers
\* the workspace is fetched again and that is the result
started_and_fetched(w, pid, in) ==
    IF w.workspace.status = "running"
    THEN [raised |-> FALSE, workspace |-> w.workspace, st |-> w.st]
    ELSE Only({[raised |-> FALSE, workspace |-> g.workspace, st |-> g.st] :
               g \in {get_workspace(start_workspace(w.st, pid, in).st, pid)}})

\* get_or_create_workspace lines 213-215: create when there is none
created_if_none(g, ranges, pid, in, t) ==
    IF g.workspace.present
    THEN [raised |-> FALSE, workspace |-> g.workspace, st |-> g.st]
    ELSE create_workspace(g.st, ranges, pid, in, t)

get_or_create_workspace(st, ranges, pid, in, t) ==
    Only({IF w.raised THEN w ELSE started_and_fetched(w, pid, in) :
          w \in {created_if_none(get_workspace(st, pid), ranges, pid, in, t)}})

\* execute_command lines 244-249: the result for a container that does not run
NotRunningReply(status) ==
    [exit_code |-> 0 - 1, success |-> FALSE,
     stderr |-> <<"Container is not running", status>>]

\* execute_command lines 270-277: the result for an exception e, stderr str(e)
ExceptionReply(e) ==
    [exit_code |-> 0 - 1, success |-> FALSE, stderr |-> <<"exception", e>>]

\* execute_command lines 236-259: the command goes to exec_run when
\* get_sandbox succeeds and the reloaded container runs; failure is the
\* result structure returned when it does not
execute_command(st, pid) ==
    Only({[dispatched |-> g.result = "ok" /\ g.view.status = "running",
           failure |-> IF g.result # "ok" THEN ExceptionReply(g.result)
                       ELSE IF g.view.status # "running"
                       THEN NotRunningReply(g.view.status)
                       ELSE NoReply,
           st |-> [st EXCEPT !.containers = g.containers]] :
          g \in {get_sandbox(st.containers, st.engine, pid)}})

\* ------------------------------------------------------------------------
\* LocalSandbox (local_sandbox.py): _workspace and _session_started
\* ------------------------------------------------------------------------
LocalSandbox(workspace, started) ==
    [present |-> TRUE, workspace |-> workspace, session_started |-> started]

\* is_running
is_running(sandbox) ==
    sandbox.workspace.present /\ sandbox.workspace.status = "running"

\* LocalSandbox.get_or_start_sandbox: the workspace it leaves in _workspace;
\* a workspace it has created is not looked at again
get_or_start_sandbox(st, ranges, pid, in, t) ==
    Only({IF g.workspace.present
          THEN started_and_fetched([workspace |-> g.workspace, st |-> g.st], pid, in)
          ELSE create_workspace(g.st, ranges, pid, in, t) :
          g \in {get_workspace(st, pid)}})

\* "if not self._workspace: await self.get_or_start_sandbox()"
with_workspace(st, ranges, pid, sandbox, in, t) ==
    IF sandbox.workspace.present
    THEN [raised |-> FALSE, workspace |-> sandbox.workspace, st |-> st]
    ELSE get_or_start_sandbox(st, ranges, pid, in, t)

\* LocalSandbox.execute_command: fetch the workspace when there is none, then
\* the adapter's execute_command; every exception becomes a failure result
sandbox_execute_command(st, ranges, pid, sandbox, in, t) ==
    Only({IF r.raised
          THEN [dispatched |-> FALSE, sandbox |-> sandbox, st |-> r.st]
          ELSE Only({[dispatched |-> e.dispatched,
                      sandbox |-> [sandbox EXCEPT !.workspace = r.workspace],
                      st |-> e.st] :
                     e \in {execute_command(r.st, pid)}}) :
          r \in {with_workspace(st, ranges, pid, sandbox, in, t)}})

\* start_supervisord_session lines 100-127: the session counts as started
\* when the ps command ran and shows supervisord
supervisor_seen(found) == found

\* start_supervisord_session: True at once when the session was started
\* before; else the ps command is run through the adapter
start_supervisord_session(st, ranges, pid, sandbox, in, t) ==
    IF sandbox.session_started
    THEN [ok |-> TRUE, sandbox |-> sandbox, st |-> st]
    ELSE Only({IF r.raised
               THEN [ok |-> FALSE, sandbox |-> sandbox, st |-> r.st]
               ELSE Only({[ok |-> e.dispatched /\ supervisor_seen(in.supervisor),
                           sandbox |-> LocalSandbox(r.workspace,
                               e.dispatched /\ supervisor_seen(in.supervisor)),
                           st |-> e.st] :
                          e \in {execute_command(r.st, pid)}}) :
               r \in {with_workspace(st, ranges, pid, sandbox, in, t)}})

\* ------------------------------------------------------------------------
\* LocalSandboxToolsBase (local_tool_base.py)
\* ------------------------------------------------------------------------
\* get_or_start_sandbox lines 47-60: with no sandbox, or one that is not
\* running, a new LocalSandbox is fetched and its supervisor session checked;
\* a failed check is logged
tool_get_or_start_sandbox(st, ranges, pid, tl, in, t) ==
    IF tl.sandbox.present /\ is_running(tl.sandbox)
    THEN [raised |-> FALSE, tool |-> tl, st |-> st]
    ELSE Only({IF r.raised
               THEN [raised |-> TRUE, tool |-> tl, st |-> r.st]
               ELSE Only({[raised |-> FALSE,
                           tool |-> [sandbox |-> s.sandbox, initialized |-> TRUE],
                           st |-> s.st] :
                          s \in {start_supervisord_session(r.st, ranges, pid,
                                    LocalSandbox(r.workspace, FALSE), in, t)}}) :
               r \in {get_or_start_sandbox(st, ranges, pid, in, t)}})

\* execute_command lines 132-147
tool_execute_command(st, ranges, pid, tl, in, t) ==
    Only({IF g.raised
          THEN [dispatched |-> FALSE, tool |-> g.tool, st |-> g.st]
          ELSE Only({[dispatched |-> e.dispatched,
                      tool |-> [g.tool EXCEPT !.sandbox = e.sandbox],
                      st |-> e.st] :
                     e \in {sandbox_execute_command(g.st, ranges, pid,
                                                    g.tool.sandbox, in, t)}}) :
          g \in {tool_get_or_start_sandbox(st, ranges, pid, tl, in, t)}})

\* how a get-or-create call ended: "raised", or the status of the workspace
\* it returned, "none" when it returned no workspace
Returned(r) ==
    IF r.raised THEN "raised"
    ELSE IF ~r.workspace.present THEN "none"
    ELSE r.workspace.status

\* LocalApiAdapter.get_or_create_workspace(project_id)
GetOrCreateWorkspace(pid, in) ==
    \E r \in {get_or_create_workspace(ManagerState, port_ranges, pid, in, now)} :
    /\ allocated_ports' = r.st.allocated
    /\ containers' = r.st.containers
    /\ workspaces_cache' = r.st.workspaces
    /\ engine' = r.st.engine
    /\ volumes' = r.st.volumes
    /\ last' = Done("get_or_create_workspace", pid, Returned(r))
    /\ UNCHANGED <<port_ranges, now, pending, tool, files, sweeper, wait>>

\* LocalSandbox(project_id).get_or_start_sandbox()
GetOrStartSandbox(pid, in) ==
    \E r \in {get_or_start_sandbox(ManagerState, port_ranges, pid, in, now)} :
    /\ allocated_ports' = r.st.allocated
    /\ containers' = r.st.containers
    /\ workspaces_cache' = r.st.workspaces
    /\ engine' = r.st.engine
    /\ volumes' = r.st.volumes
    /\ last' = Done("get_or_start_sandbox", pid, Returned(r))
    /\ UNCHANGED <<port_ranges, now, pending, tool, files, sweeper, wait>>

\* LocalSandboxToolsBase(project_id).get_or_start_sandbox()
ToolGetOrStartSandbox(pid, in) ==
    \E r \in {tool_get_or_start_sandbox(ManagerState, port_ranges, pid, tool[pid], in, now)} :
    /\ allocated_ports' = r.st.allocated
    /\ containers' = r.st.containers
    /\ workspaces_cache' = r.st.workspaces
    /\ engine' = r.st.engine
    /\ volumes' = r.st.volumes
    /\ tool' = [tool EXCEPT ![pid] = r.tool]
    /\ last' = Done("tool_get_or_start_sandbox", pid,
                    IF r.raised THEN "raised" ELSE "returned")
    /\ UNCHANGED <<port_ranges, now, pending, files, sweeper, wait>>

\* LocalApiAdapter.stop_workspace: stop_sandbox; when the adapter holds a
\* workspace of the project, get_sandbox and a new LocalWorkspace in its
\* place; True, or False for any exception
stop_workspace(st, pid) ==
    Only({IF s.result # "ok"
          THEN [ok |-> FALSE, st |-> st]
          ELSE IF pid \notin st.workspaces
          THEN [ok |-> TRUE, st |-> [st EXCEPT !.engine = s.engine]]
          ELSE Only({[ok |-> g.result = "ok",
                      st |-> [st EXCEPT !.engine = s.engine,
                                        !.containers = g.containers]] :
                     g \in {get_sandbox(st.containers, s.engine, pid)}}) :
          s \in {stop_sandbox(st.containers, st.engine, pid)}})

\* LocalSandbox.stop: the adapter's answer; on True _session_started is
\* cleared, _workspace is left as it is
sandbox_stop(st, pid, sandbox) ==
    Only({[ok |-> r.ok,
           sandbox |-> IF r.ok THEN [sandbox EXCEPT !.session_started = FALSE]
                       ELSE sandbox,
           st |-> r.st] :
          r \in {stop_workspace(st, pid)}})

\* stop() on the LocalSandbox the tool base of the project holds
SandboxStop(pid) ==
    /\ tool[pid].sandbox.present
    /\ \E r \in {sandbox_stop(ManagerState, pid, tool[pid].sandbox)} :
        /\ containers' = r.st.containers
        /\ engine' = r.st.engine
        /\ tool' = [tool EXCEPT ![pid].sandbox = r.sandbox]
        /\ last' = Done("sandbox_stop", pid, IF r.ok THEN "true" ELSE "false")
    /\ UNCHANGED <<port_ranges, allocated_ports, volumes, now, pending, files,
                   workspaces_cache, sweeper, wait>>

\* LocalApiAdapter.get_workspace(project_id)
GetWorkspace(pid) ==
    \E r \in {get_workspace(ManagerState, pid)} :
    /\ containers' = r.st.containers
    /\ workspaces_cache' = r.st.workspaces
    /\ last' = Done("get_workspace", pid, Returned(r))
    /\ UNCHANGED <<port_ranges, allocated_ports, engine, volumes, now, pending, tool, files, sweeper, wait>>

\* LocalApiAdapter.create_workspace(project_id)
CreateWorkspace(pid, in) ==
    \E r \in {create_workspace(ManagerState, port_ranges, pid, in, now)} :
    /\ allocated_ports' = r.st.allocated
    /\ containers' = r.st.containers
    /\ workspaces_cache' = r.st.workspaces
    /\ engine' = r.st.engine
    /\ volumes' = r.st.volumes
    /\ last' = Done("create_workspace", pid, Returned(r))
    /\ UNCHANGED <<port_ranges, now, pending, tool, files, sweeper, wait>>

\* LocalApiAdapter.start_workspace(project_id)
StartWorkspace(pid, in) ==
    \E r \in {start_workspace(ManagerState, pid, in)} :
    /\ containers' = r.st.containers
    /\ engine' = r.st.engine
    /\ last' = Done("start_workspace", pid, IF r.ok THEN "true" ELSE "false")
    /\ UNCHANGED <<port_ranges, allocated_ports, volumes, now, pending, tool, files, workspaces_cache, sweeper, wait>>

\* LocalApiAdapter.execute_command(project_id, command)
ExecuteCommand(pid) ==
    \E r \in {execute_command(ManagerState, pid)} :
    /\ containers' = r.st.containers
    /\ last' = [Done("execute_command", pid,
                     IF r.dispatched THEN "dispatched" ELSE "failed")
                EXCEPT !.reply = r.failure]
    /\ UNCHANGED <<port_ranges, allocated_ports, engine, volumes, now, pending, tool, files, workspaces_cache, sweeper, wait>>

\* LocalSandboxToolsBase(project_id).execute_command(command)
ToolExecuteCommand(pid, in) ==
    \E r \in {tool_execute_command(ManagerState, port_ranges, pid, tool[pid], in, now)} :
    /\ allocated_ports' = r.st.allocated
    /\ containers' = r.st.containers
    /\ workspaces_cache' = r.st.workspaces
    /\ engine' = r.st.engine
    /\ volumes' = r.st.volumes
    /\ tool' = [tool EXCEPT ![pid] = r.tool]
    /\ last' = Done("tool_execute_command", pid,
                    IF r.dispatched THEN "dispatched" ELSE "failed")
    /\ UNCHANGED <<port_ranges, now, pending, files, sweeper, wait>>

\* every operation on one manager, and what the engine and others do to it
NextOneManager ==
    \/ \E pid \in Projects, hours \in AutoStopHours, fault \in EngineFaults :
            CreateSandbox(pid, hours, fault, AllAnswer)
    \/ \E pid \in Projects : GetSandbox(pid)
    \/ ListSandboxes
    \/ \E pid \in Projects, fault \in StartFaults :
            StartSandbox(pid, fault, AllAnswer)
    \/ \E pid \in Projects : StopSandbox(pid)
    \/ \E pid \in Projects : DeleteSandbox(pid)
    \/ \E pid \in Projects : ExternalRemove(pid)

Next ==
    \/ NextOneManager
    \/ NewManager

NextTimed ==
    \/ Next
    \/ CleanupExpired
    \/ Tick

\* one manager from its construction on
SpecOneManager == Init /\ [][NextOneManager]_vars

\* the callers of the manager: the adapter's get-or-create, the sandbox
\* handle's and the tool base's operations, next to create, stop and delete
\* and a container removed by someone else
NextClient ==
    \/ \E pid \in Projects, in \in CallInputs : GetOrCreateWorkspace(pid, in)
    \/ \E pid \in Projects, in \in CallInputs : GetOrStartSandbox(pid, in)
    \/ \E pid \in Projects, in \in CallInputs : ToolExecuteCommand(pid, in)
    \/ \E pid \in Projects, in \in CallInputs : ToolGetOrStartSandbox(pid, in)
    \/ \E pid \in Projects : StopSandbox(pid)
    \/ \E pid \in Projects : DeleteSandbox(pid)
    \/ \E pid \in Projects : ExternalRemove(pid)

SpecClient == Init /\ [][NextClient]_vars

\* the adapter's operations on the process's manager, a container stopped or
\* removed behind the adapter's back, and the process started again; a
\* create_workspace makes no start and asks for no supervisor, a
\* start_workspace makes no create
CreateInputs == {in \in CallInputs : in.start = "none" /\ in.supervisor}
StartInputs == {in \in CallInputs : in.create = "none" /\ in.supervisor}

NextAdapter ==
    \/ \E pid \in Projects, in \in CreateInputs : CreateWorkspace(pid, in)
    \/ \E pid \in Projects : GetWorkspace(pid)
    \/ \E pid \in Projects, in \in StartInputs : StartWorkspace(pid, in)
    \/ \E pid \in Projects : ExecuteCommand(pid)
    \/ \E pid \in Projects : StopSandbox(pid)
    \/ \E pid \in Projects : ExternalRemove(pid)
    \/ NewManager

SpecAdapter == Init /\ [][NextAdapter]_vars

\* create, stop, start and delete on one manager, with every way the probes
\* of the readiness wait can answer
NextReady ==
    \/ \E pid \in Projects, hours \in AutoStopHours, fault \in EngineFaults,
          probe \in Probes :
            CreateSandbox(pid, hours, fault, probe)
    \/ \E pid \in Projects, fault \in StartFaults, probe \in Probes :
            StartSandbox(pid, fault, probe)
    \/ \E pid \in Projects : StopSandbox(pid)
    \/ \E pid \in Projects : DeleteSandbox(pid)

SpecReady == Init /\ [][NextReady]_vars

\* managers come and go on one engine; the clock stands still
Spec == Init /\ [][Next]_vars

\* the same with the clock running and the expiry sweep
SpecTimed == Init /\ [][NextTimed]_vars

\* ------------------------------------------------------------------------
\* The port allocator alone, for any configuration of ranges and any in-use
\* set: every role's range has 1..MaxRange ports
\* ------------------------------------------------------------------------
RangeBase == [vnc |-> 1, novnc |-> 11, browser_api |-> 21, file_server |-> 31]

RangeConfigs ==
    {[r \in RoleSet |-> <<RangeBase[r], RangeBase[r] + len[r] - 1>>] :
        len \in [RoleSet -> 1..MaxRange]}

PortsOfRanges(ranges) ==
    UNION {ranges[r][1]..ranges[r][2] : r \in RoleSet}

InitAlloc ==
    /\ port_ranges \in RangeConfigs
    /\ allocated_ports \in SUBSET PortsOfRanges(port_ranges)
    /\ containers = [p \in Projects |-> NoEntry]
    /\ engine = [p \in Projects |-> NoContainer]
    /\ volumes = {}
    /\ now = 0
    /\ pending = [p \in Projects |-> NoTask]
    /\ tool = [p \in Projects |-> NewTool]
    /\ files = [p \in Projects |-> {}]
    /\ workspaces_cache = {}
    /\ sweeper = [t \in Sweepers |-> NewSweeper]
    /\ wait = NoWait
    /\ last = NoOp

\* PortManager.allocate_ports(project_id)
AllocatePorts ==
    LET a == allocate_ports(port_ranges, allocated_ports) IN
    /\ allocated_ports' = a.allocated
    /\ last' = [Done("allocate", NoProject, IF a.ok THEN "ok" ELSE "ports_exhausted")
                    EXCEPT !.pre = allocated_ports]
    /\ UNCHANGED <<port_ranges, containers, engine, volumes, now, pending, tool, files, workspaces_cache, sweeper, wait>>

\* PortManager.release_ports(ports), ports a role -> port mapping
ReleasePorts ==
    \E roles \in SUBSET RoleSet :
    \E ports \in [roles -> PortsOfRanges(port_ranges)] :
        /\ \A r \in roles : ports[r] \in port_ranges[r][1]..port_ranges[r][2]
        /\ allocated_ports' = release_ports(allocated_ports, ports)
        /\ last' = Done("release", NoProject, "ok")
        /\ UNCHANGED <<port_ranges, containers, engine, volumes, now, pending, tool, files, workspaces_cache, sweeper, wait>>

NextAlloc ==
    \/ AllocatePorts
    \/ ReleasePorts

SpecAlloc == InitAlloc /\ [][NextAlloc]_vars

\* ------------------------------------------------------------------------
\* Calls that overlap on one manager.  The manager's coroutines run on one
\* event loop: a create_sandbox call runs without interruption up to its
\* await of _wait_for_services, is suspended there while other calls run, and
\* goes on when the wait returns.  A project has at most one create_sandbox
\* suspended at a time.
\* ------------------------------------------------------------------------
\* the locals of a suspended create_sandbox: the ports it holds, and when it
\* was called
Suspended(ports, t) == [present |-> TRUE, ports |-> ports, since |-> t]

\* create_sandbox is called and runs until it fails or reaches the wait
CreateCall(pid, hours, fault) ==
    \E b \in {create_until_wait(ManagerState, port_ranges, pid, hours, fault, now)} :
    /\ b.result = "waiting" => ~pending[pid].present
    /\ allocated_ports' = b.st.allocated
    /\ containers' = b.st.containers
    /\ engine' = b.st.engine
    /\ volumes' = b.st.volumes
    /\ pending' = IF b.result = "waiting"
                  THEN [pending EXCEPT ![pid] = Suspended(b.ports, now)]
                  ELSE pending
    /\ last' = Done("create", pid, b.result)
    /\ UNCHANGED <<port_ranges, now, tool, files, workspaces_cache, sweeper, wait>>

\* the wait of a suspended create_sandbox is over and the call runs to its end
CreateReturn(pid, probe) ==
    /\ pending[pid].present
    /\ \E w \in {WaitOutcome[probe]} :
       \E r \in {create_after_wait(ManagerState, pid, pending[pid].ports, w,
                                   pending[pid].since + w.elapsed)} :
        /\ allocated_ports' = r.st.allocated
        /\ containers' = r.st.containers
        /\ engine' = r.st.engine
        /\ volumes' = r.st.volumes
        /\ last' = Done("create_return", pid, r.result)
    /\ pending' = [pending EXCEPT ![pid] = NoTask]
    /\ UNCHANGED <<port_ranges, now, tool, files, workspaces_cache, sweeper, wait>>

\* the task of a suspended create_sandbox is cancelled: asyncio.sleep raises
\* CancelledError, which is not an Exception, so the except branch of lines
\* 192-196 does not run and the error leaves create_sandbox
CreateCancelled(pid) ==
    /\ pending[pid].present
    /\ pending' = [pending EXCEPT ![pid] = NoTask]
    /\ last' = Done("create_return", pid, "cancelled")
    /\ UNCHANGED <<port_ranges, allocated_ports, containers, engine, volumes, now, tool, files, workspaces_cache, sweeper, wait>>

\* create_sandbox calls that overlap each other, and delete_sandbox
NextCreates ==
    \/ \E pid \in Projects, hours \in AutoStopHours, fault \in EngineFaults :
            CreateCall(pid, hours, fault)
    \/ \E pid \in Projects, probe \in Probes : CreateReturn(pid, probe)
    \/ \E pid \in Projects : CreateCancelled(pid)
    \/ \E pid \in Projects : DeleteSandbox(pid)

SpecCreates == Init /\ [][NextCreates]_vars

\* create_sandbox, get_sandbox and delete_sandbox calls that overlap
NextConc ==
    \/ \E pid \in Projects, hours \in AutoStopHours, fault \in EngineFaults :
            CreateCall(pid, hours, fault)
    \/ \E pid \in Projects : CreateReturn(pid, AllAnswer)
    \/ \E pid \in Projects : CreateCancelled(pid)
    \/ \E pid \in Projects : GetSandbox(pid)
    \/ \E pid \in Projects : DeleteSandbox(pid)

SpecConc == Init /\ [][NextConc]_vars

\* a manager whose port ranges are nearly used up: every role has 1..MaxRange
\* ports left
InitScarce ==
    /\ port_ranges \in RangeConfigs
    /\ allocated_ports = {}
    /\ containers = [p \in Projects |-> NoEntry]
    /\ engine = [p \in Projects |-> NoContainer]
    /\ volumes = {}
    /\ now = 0
    /\ pending = [p \in Projects |-> NoTask]
    /\ tool = [p \in Projects |-> NewTool]
    /\ files = [p \in Projects |-> {}]
    /\ workspaces_cache = {}
    /\ sweeper = [t \in Sweepers |-> NewSweeper]
    /\ wait = NoWait
    /\ last = NoOp

SpecScarce == InitScarce /\ [][NextConc]_vars

\* ------------------------------------------------------------------------
\* Paths.  A path is the sequence of its characters; the input paths are
\* made of at most MaxAtoms pieces
\* ------------------------------------------------------------------------
Dot == <<".">>
DotDot == <<".", ".">>
Slash == <<"/">>
WorkspaceName == <<"w", "o", "r", "k", "s", "p", "a", "c", "e">>
WorkspaceRoot == Slash \o WorkspaceName

PathAtoms ==
    {Slash, Dot, DotDot, <<"~">>, <<":">>, <<"a">>, <<"%", "2", "e">>, WorkspaceName}

RECURSIVE PathsOfAtoms(_)
PathsOfAtoms(n) ==
    IF n = 0 THEN {<<>>}
    ELSE PathsOfAtoms(n - 1) \cup {p \o a : p \in PathsOfAtoms(n - 1), a \in PathAtoms}

Paths == PathsOfAtoms(MaxAtoms)

\* str.startswith
startswith(path, prefix) ==
    Len(path) >= Len(prefix) /\ SubSeq(path, 1, Len(prefix)) = prefix

\* "sub in path" for strings
contains(path, sub) ==
    \E i \in 1..(Len(path) - Len(sub) + 1) : SubSeq(path, i, i + Len(sub) - 1) = sub

\* path.split('/')
RECURSIVE SplitLoop(_, _, _, _)
SplitLoop(path, i, cur, out) ==
    IF i > Len(path) THEN Append(out, cur)
    ELSE IF path[i] = "/" THEN SplitLoop(path, i + 1, <<>>, Append(out, cur))
    ELSE SplitLoop(path, i + 1, Append(cur, path[i]), out)

split(path) == SplitLoop(path, 1, <<>>, <<>>)

\* '/'.join(comps)
RECURSIVE JoinLoop(_, _, _)
JoinLoop(comps, i, out) ==
    IF i > Len(comps) THEN out
    ELSE JoinLoop(comps, i + 1, IF i = 1 THEN comps[i] ELSE out \o Slash \o comps[i])

join(comps) == JoinLoop(comps, 1, <<>>)

\* os.path.normpath (posixpath): the loop over the components
RECURSIVE NormLoop(_, _, _, _)
NormLoop(comps, i, initial_slashes, new_comps) ==
    IF i > Len(comps) THEN new_comps
    ELSE IF comps[i] = <<>> \/ comps[i] = Dot
    THEN NormLoop(comps, i + 1, initial_slashes, new_comps)
    ELSE IF \/ comps[i] # DotDot
            \/ (initial_slashes = 0 /\ new_comps = <<>>)
            \/ (new_comps # <<>> /\ new_comps[Len(new_comps)] = DotDot)
    THEN NormLoop(comps, i + 1, initial_slashes, Append(new_comps, comps[i]))
    ELSE IF new_comps # <<>>
    THEN NormLoop(comps, i + 1, initial_slashes,
                  SubSeq(new_comps, 1, Len(new_comps) - 1))
    ELSE NormLoop(comps, i + 1, initial_slashes, new_comps)

\* the leading slashes normpath keeps: two when the path starts with
\* exactly two, else one or none
InitialSlashes(path) ==
    IF ~startswith(path, Slash) THEN 0
    ELSE IF startswith(path, Slash \o Slash)
            /\ ~startswith(path, Slash \o Slash \o Slash) THEN 2
    ELSE 1

normpath(path) ==
    IF path = <<>> THEN Dot
    ELSE LET n == InitialSlashes(path)
             body == join(NormLoop(split(path), 1, n, <<>>))
             out == (IF n = 2 THEN Slash \o Slash ELSE IF n = 1 THEN Slash ELSE <<>>)
                    \o body
         IN  IF out = <<>> THEN Dot ELSE out

\* re.sub(r'[<>:"|?*]', '', path)
DangerousChars == {"<", ">", ":", "\"", "|", "?", "*"}
StripChar(c) == c \notin DangerousChars
strip_dangerous(path) == SelectSeq(path, StripChar)

\* re.sub(r'/+', '/', path)
RECURSIVE CollapseLoop(_, _, _)
CollapseLoop(path, i, out) ==
    IF i > Len(path) THEN out
    ELSE IF path[i] = "/" /\ out # <<>> /\ out[Len(out)] = "/"
    THEN CollapseLoop(path, i + 1, out)
    ELSE CollapseLoop(path, i + 1, Append(out, path[i]))

collapse_slashes(path) == CollapseLoop(path, 1, <<>>)

\* lines 86-90: a path that does not start with /workspace is put under it
reparent(path) ==
    IF startswith(path, WorkspaceRoot) THEN path
    ELSE IF startswith(path, Slash) THEN WorkspaceRoot \o path
    ELSE WorkspaceRoot \o Slash \o path

\* LocalSandboxToolsBase.clean_path
clean_path(path) ==
    IF path = <<>> THEN WorkspaceRoot
    ELSE collapse_slashes(reparent(normpath(strip_dangerous(path))))

\* LocalSandboxToolsBase.validate_path
validate_path(path) ==
    IF path = <<>> THEN FALSE
    ELSE IF contains(path, DotDot) \/ startswith(path, <<"~">>) THEN FALSE
    ELSE startswith(normpath(path), WorkspaceRoot)

\* urllib.parse.unquote on the escapes the input paths can hold: %2e is a dot
RECURSIVE UnquoteLoop(_, _, _)
UnquoteLoop(path, i, out) ==
    IF i > Len(path) THEN out
    ELSE IF i + 2 <= Len(path) /\ SubSeq(path, i, i + 2) = <<"%", "2", "e">>
    THEN UnquoteLoop(path, i + 3, Append(out, "."))
    ELSE UnquoteLoop(path, i + 1, Append(out, path[i]))

unquote(path) == UnquoteLoop(path, 1, <<>>)

\* clean_path of the HTTP facade (local_api.py)
api_clean_path(path) ==
    IF path = <<>> THEN WorkspaceRoot
    ELSE reparent(normpath(unquote(path)))

\* validate_path of the HTTP facade
api_validate_path(path) ==
    IF path = <<>> THEN FALSE
    ELSE IF contains(path, DotDot) \/ contains(path, <<"~">>) THEN FALSE
    ELSE startswith(normpath(path), WorkspaceRoot)

\* clean_path applied to a path argument
CleanPath(path) ==
    /\ last' = [Done("clean_path", NoProject, "ok") EXCEPT
                    !.arg = path, !.out = clean_path(path)]
    /\ UNCHANGED <<port_ranges, allocated_ports, containers, engine, volumes, now,
                   pending, tool, files, workspaces_cache, sweeper, wait>>

\* clean_path of the facade applied to a path argument
ApiCleanPath(path) ==
    /\ last' = [Done("api_clean_path", NoProject, "ok") EXCEPT
                    !.arg = path, !.out = api_clean_path(path)]
    /\ UNCHANGED <<port_ranges, allocated_ports, containers, engine, volumes, now,
                   pending, tool, files, workspaces_cache, sweeper, wait>>

NextPaths ==
    \/ \E path \in Paths : CleanPath(path)
    \/ \E path \in Paths : ApiCleanPath(path)

\* the path sanitizers on every input path
SpecPaths == Init /\ [][NextPaths]_vars

\* ------------------------------------------------------------------------
\* Commands in the container.  A command is the program with its options,
\* its path argument, the text of an echo and the working directory; the file
\* system is the set of the files, each under its normalised path
\* ------------------------------------------------------------------------
Contents == {"abc"}

Cmd(prog, path, text) ==
    [prog |-> prog, path |-> path, text |-> text, workdir |-> WorkspaceRoot]

\* the commands a tool passes to execute_command itself
UserCommands == {Cmd("touch", WorkspaceRoot \o Slash \o <<"a">>, "")}

File(path, text) == [path |-> normpath(path), text |-> text]
HasFile(fs, path) == \E f \in fs : f.path = normpath(path)
TextOf(fs, path) == (CHOOSE f \in fs : f.path = normpath(path)).text

\* the directories a command can be started in
IsDirectory(path) == normpath(path) \in {Slash, WorkspaceRoot}

\* what rm -rf removes: the path and what lies under it; rm refuses the
\* root directory and a path that ends in . or ..
RmRefuses(path) ==
    \/ normpath(path) = Slash
    \/ split(path)[Len(split(path))] \in {Dot, DotDot}
Under(path, dir) ==
    \/ path = normpath(dir)
    \/ startswith(path, normpath(dir) \o Slash)

\* /workspace is where the project's volume is mounted: rm -rf empties it
\* and then fails to remove the directory itself
IsMountPoint(path) == normpath(path) = WorkspaceRoot

\* the result structure of lines 261-268 for an exit code and an output
ExecReply(code, out) == [exit_code |-> code, success |-> code = 0, stdout |-> out]

\* the failure structure of the except branches: exit code -1, no output
FailedReply == ExecReply(0 - 1, <<>>)

\* container.exec_run(command, workdir=...): the engine splits the command
\* string into words and starts the program with them; no shell reads the
\* command, so the ">" of an echo and the path after it are words that echo
\* prints
exec_run(fs, cmd) ==
    IF ~IsDirectory(cmd.workdir)
    THEN [reply |-> FailedReply, fs |-> fs]
    ELSE IF cmd.prog = "echo"
    THEN [reply |-> ExecReply(0, <<cmd.text, ">">> \o cmd.path \o <<"\n">>),
          fs |-> fs]
    ELSE IF cmd.prog = "touch"
    THEN [reply |-> ExecReply(0, <<>>),
          fs |-> IF HasFile(fs, cmd.path) THEN fs
                 ELSE fs \cup {File(cmd.path, <<>>)}]
    ELSE IF cmd.prog = "test -f"
    THEN [reply |-> ExecReply(IF HasFile(fs, cmd.path) THEN 0 ELSE 1, <<>>),
          fs |-> fs]
    ELSE IF cmd.prog = "cat"
    THEN [reply |-> IF HasFile(fs, cmd.path)
                    THEN ExecReply(0, TextOf(fs, cmd.path))
                    ELSE ExecReply(1, <<"No such file or directory">>),
          fs |-> fs]
    ELSE IF cmd.prog = "rm -f"
    THEN [reply |-> ExecReply(0, <<>>),
          fs |-> {f \in fs : f.path # normpath(cmd.path)}]
    ELSE IF cmd.prog = "rm -rf"
    THEN IF RmRefuses(cmd.path)
         THEN [reply |-> ExecReply(1, <<"refusing to remove">>), fs |-> fs]
         ELSE [reply |-> ExecReply(IF IsMountPoint(cmd.path) THEN 1 ELSE 0, <<>>),
               fs |-> {f \in fs : ~Under(f.path, cmd.path)}]
    ELSE \* mkdir -p
         [reply |-> ExecReply(0, <<>>), fs |-> fs]

\* os.path.dirname
RECURSIVE LastSlash(_, _)
LastSlash(path, i) ==
    IF i = 0 THEN 0 ELSE IF path[i] = "/" THEN i ELSE LastSlash(path, i - 1)

RECURSIVE RStripSlash(_)
RStripSlash(path) ==
    IF path # <<>> /\ path[Len(path)] = "/"
    THEN RStripSlash(SubSeq(path, 1, Len(path) - 1)) ELSE path

dirname(path) ==
    LET head == SubSeq(path, 1, LastSlash(path, Len(path))) IN
    IF RStripSlash(head) = <<>> THEN head ELSE RStripSlash(head)

\* ------------------------------------------------------------------------
\* The primitives of LocalSandboxToolsBase, on x = [st, tool, fs, sent]: the
\* manager's state, the tool, the project's files and the commands passed
\* to exec so far in the call
\* ------------------------------------------------------------------------
\* adapter execute_command lines 251-268 for a command that is dispatched
ran(x, e, cmd) ==
    Only({[reply |-> r.reply,
           x |-> [st |-> e.st, tool |-> e.tool, fs |-> r.fs,
                  sent |-> Append(x.sent, cmd)]] :
          r \in {exec_run(x.fs, cmd)}})

\* execute_command(command, workdir): the sandbox is fetched, the workdir
\* cleaned, and the command handed to the sandbox
tool_exec(x, ranges, pid, in, t, cmd, workdir) ==
    Only({IF e.dispatched
          THEN ran(x, e, [cmd EXCEPT !.workdir = clean_path(workdir)])
          ELSE [reply |-> FailedReply,
                x |-> [x EXCEPT !.st = e.st, !.tool = e.tool]] :
          e \in {tool_execute_command(x.st, ranges, pid, x.tool, in, t)}})

Failed(result, x) == [result |-> result, out |-> <<>>, x |-> x]

\* read_file lines 166-179, for a cleaned and valid file_path
read_valid(x, ranges, pid, in, t, file_path) ==
    Only({IF ~e.reply.success THEN Failed("none", e.x)
          ELSE Only({IF r.reply.success
                     THEN [result |-> "content", out |-> r.reply.stdout, x |-> r.x]
                     ELSE Failed("none", r.x) :
                     r \in {tool_exec(e.x, ranges, pid, in, t,
                                      Cmd("cat", file_path, ""), WorkspaceRoot)}}) :
          e \in {tool_exec(x, ranges, pid, in, t,
                           Cmd("test -f", file_path, ""), WorkspaceRoot)}})

read_file(x, ranges, pid, in, t, path) ==
    IF ~validate_path(clean_path(path)) THEN Failed("none", x)
    ELSE read_valid(x, ranges, pid, in, t, clean_path(path))

\* write_file lines 203-214, for a cleaned and valid file_path
write_valid(x, ranges, pid, in, t, file_path, content) ==
    Only({Only({[result |-> IF w.reply.success THEN "true" ELSE "false",
                 out |-> <<>>, x |-> w.x] :
                w \in {tool_exec(m.x, ranges, pid, in, t,
                                 Cmd("echo", file_path, content), WorkspaceRoot)}}) :
          m \in {tool_exec(x, ranges, pid, in, t,
                           Cmd("mkdir -p", dirname(file_path), ""), WorkspaceRoot)}})

write_file(x, ranges, pid, in, t, path, content) ==
    IF ~validate_path(clean_path(path)) THEN Failed("false", x)
    ELSE write_valid(x, ranges, pid, in, t, clean_path(path), content)

\* file_exists
file_exists(x, ranges, pid, in, t, path) ==
    IF ~validate_path(clean_path(path)) THEN Failed("false", x)
    ELSE Only({[result |-> IF e.reply.exit_code = 0 THEN "true" ELSE "false",
                out |-> <<>>, x |-> e.x] :
               e \in {tool_exec(x, ranges, pid, in, t,
                                Cmd("test -f", clean_path(path), ""), WorkspaceRoot)}})

\* delete_file
delete_file(x, ranges, pid, in, t, path) ==
    IF ~validate_path(clean_path(path)) THEN Failed("false", x)
    ELSE Only({[result |-> IF e.reply.success THEN "true" ELSE "false",
                out |-> <<>>, x |-> e.x] :
               e \in {tool_exec(x, ranges, pid, in, t,
                                Cmd("rm -f", clean_path(path), ""), WorkspaceRoot)}})

\* delete_directory: the workspace root is not deleted
delete_directory(x, ranges, pid, in, t, path) ==
    IF ~validate_path(clean_path(path)) THEN Failed("false", x)
    ELSE IF clean_path(path) = WorkspaceRoot THEN Failed("false", x)
    ELSE Only({[result |-> IF e.reply.success THEN "true" ELSE "false",
                out |-> <<>>, x |-> e.x] :
               e \in {tool_exec(x, ranges, pid, in, t,
                                Cmd("rm -rf", clean_path(path), ""), WorkspaceRoot)}})

\* the state a call of project pid's tool starts from
ToolState(pid) ==
    [st |-> ManagerState, tool |-> tool[pid], fs |-> files[pid], sent |-> <<>>]

\* the state a call that ended r leaves
ToolCall(op, pid, path, content, r) ==
    /\ allocated_ports' = r.x.st.allocated
    /\ containers' = r.x.st.containers
    /\ workspaces_cache' = r.x.st.workspaces
    /\ engine' = r.x.st.engine
    /\ volumes' = r.x.st.volumes
    /\ tool' = [tool EXCEPT ![pid] = r.x.tool]
    /\ files' = [files EXCEPT ![pid] = r.x.fs]
    /\ last' = [Done(op, pid, r.result) EXCEPT
                    !.arg = path, !.text = content, !.out = r.out,
                    !.sent = r.x.sent]
    /\ UNCHANGED <<port_ranges, now, pending, sweeper, wait>>

\* LocalSandboxToolsBase(pid).execute_command(command, workdir)
ToolExec(pid, cmd, workdir, in) ==
    \E e \in {tool_exec(ToolState(pid), port_ranges, pid, in, now, cmd, workdir)} :
        ToolCall("exec", pid, workdir, "",
                 [result |-> IF e.reply.success THEN "true" ELSE "false",
                  out |-> e.reply.stdout, x |-> e.x])

ReadFile(pid, path, in) ==
    \E r \in {read_file(ToolState(pid), port_ranges, pid, in, now, path)} :
        ToolCall("read_file", pid, path, "", r)

WriteFile(pid, path, content, in) ==
    \E r \in {write_file(ToolState(pid), port_ranges, pid, in, now, path, content)} :
        ToolCall("write_file", pid, path, content, r)

FileExists(pid, path, in) ==
    \E r \in {file_exists(ToolState(pid), port_ranges, pid, in, now, path)} :
        ToolCall("file_exists", pid, path, "", r)

DeleteFile(pid, path, in) ==
    \E r \in {delete_file(ToolState(pid), port_ranges, pid, in, now, path)} :
        ToolCall("delete_file", pid, path, "", r)

DeleteDirectory(pid, path, in) ==
    \E r \in {delete_directory(ToolState(pid), port_ranges, pid, in, now, path)} :
        ToolCall("delete_directory", pid, path, "", r)

\* the paths and the engine's behaviour in the calls of a tool: the one-atom
\* paths and the spellings of the workspace root and of a file in it; the
\* engine does what it is asked and the supervisor is seen
ToolPaths ==
    PathsOfAtoms(1) \cup {WorkspaceRoot, WorkspaceRoot \o Slash,
                          WorkspaceRoot \o Slash \o <<"a">>}
ToolInputs ==
    {in \in CallInputs : in.create = "none" /\ in.start = "none" /\ in.supervisor}


\* ------------------------------------------------------------------------
\* The HTTP API (local_api.py): each request ends in a status code.  Its
\* manager and the adapter's are two LocalSandboxManager objects on one
\* engine; they are run here on one cache, and NewManager gives the states
\* in which a cache does not know a container of the engine
\* ------------------------------------------------------------------------
\* what start_sandbox, stop_sandbox and delete_sandbox return when they raise
\* nothing: they end without a return statement
ManagerReturn == "none"

\* "if not success"
Truthy(value) == value \notin {"none", "false"}

\* the handlers of lines 240-322: 500 when the manager raised and 500 when
\* what it returned is not true
manager_answer(result) ==
    IF result # "ok" THEN "500"
    ELSE IF ~Truthy(ManagerReturn) THEN "500"
    ELSE "200"

\* an HTTPException raised inside the try of get_project_sandbox: the
\* handler of Exception takes it and raises a 500
raised_in_dependency(status) == "500"

\* an HTTPException raised inside the try of an endpoint: "except
\* HTTPException: raise"
raised_in_endpoint(status) == status

\* GET /{project_id}: get_sandbox raises for a project it does not find; the
\* answer is built from sandbox_info['project_id']
api_get_sandbox(g) ==
    IF g.result # "ok" THEN "500"
    ELSE IF ~g.view.present THEN raised_in_endpoint("404")
    ELSE IF "project_id" \notin DOMAIN g.view THEN "500"
    ELSE "200"

ApiGetSandbox(pid) ==
    \E g \in {get_sandbox(containers, engine, pid)} :
    /\ containers' = g.containers
    /\ last' = [Done("api_get", pid, api_get_sandbox(g)) EXCEPT !.inner = g.result]
    /\ UNCHANGED <<port_ranges, allocated_ports, engine, volumes, now, pending, tool, files, workspaces_cache, sweeper, wait>>

\* POST /{project_id}/start
ApiStartSandbox(pid, fault, probe) ==
    \E r \in {start_sandbox(containers, engine, pid, fault, probe)} :
    /\ containers' = r.containers
    /\ engine' = r.engine
    /\ last' = [Done("api_start", pid, manager_answer(r.result)) EXCEPT
                    !.inner = r.result]
    /\ UNCHANGED <<port_ranges, allocated_ports, volumes, now, pending, tool, files, workspaces_cache, sweeper, wait>>

\* POST /{project_id}/stop
ApiStopSandbox(pid) ==
    \E r \in {stop_sandbox(containers, engine, pid)} :
    /\ engine' = r.engine
    /\ last' = [Done("api_stop", pid, manager_answer(r.result)) EXCEPT
                    !.inner = r.result]
    /\ UNCHANGED <<port_ranges, allocated_ports, containers, volumes, now, pending, tool, files, workspaces_cache, sweeper, wait>>

\* DELETE /{project_id}
ApiDeleteSandbox(pid) ==
    \E d \in {delete_sandbox(ManagerState, pid)} :
    /\ allocated_ports' = d.st.allocated
    /\ containers' = d.st.containers
    /\ engine' = d.st.engine
    /\ volumes' = d.st.volumes
    /\ files' = FilesIn(d.st.volumes)
    /\ last' = [Done("api_delete", pid, manager_answer(d.result)) EXCEPT
                    !.inner = d.result]
    /\ UNCHANGED <<port_ranges, now, pending, tool, workspaces_cache, sweeper, wait>>

\* get_project_sandbox: the dependency of the endpoints of one project
get_project_sandbox(st, pid) ==
    Only({IF w.raised
          THEN [status |-> "500", sandbox |-> NoSandbox, st |-> w.st]
          ELSE IF ~w.workspace.present
          THEN [status |-> raised_in_dependency("404"), sandbox |-> NoSandbox,
                st |-> w.st]
          ELSE [status |-> "ok", sandbox |-> LocalSandbox(w.workspace, FALSE),
                st |-> w.st] :
          w \in {get_workspace(st, pid)}})

Answer(status, st, fs, sent) ==
    [status |-> status, st |-> st, fs |-> fs, sent |-> sent]

\* sandbox.execute_command of a sandbox that has its _workspace: the
\* adapter's execute_command
api_run(st, fs, pid, cmd) ==
    Only({IF e.dispatched
          THEN Only({[reply |-> r.reply, st |-> e.st, fs |-> r.fs, sent |-> <<cmd>>] :
                     r \in {exec_run(fs, cmd)}})
          ELSE [reply |-> FailedReply, st |-> e.st, fs |-> fs, sent |-> <<>>] :
          e \in {execute_command(st, pid)}})

\* POST /{project_id}/execute: the result of the command is the answer,
\* whatever its exit code
api_execute_command(st, fs, pid, cmd, workdir) ==
    Only({IF d.status # "ok" THEN Answer(d.status, d.st, fs, <<>>)
          ELSE IF ~api_validate_path(api_clean_path(workdir))
          THEN Answer(raised_in_endpoint("400"), d.st, fs, <<>>)
          ELSE Only({Answer("200", r.st, r.fs, r.sent) :
                     r \in {api_run(d.st, fs, pid,
                                [cmd EXCEPT !.workdir = api_clean_path(workdir)])}}) :
          d \in {get_project_sandbox(st, pid)}})

\* DELETE /{project_id}/files
api_delete_file(st, fs, pid, path) ==
    Only({IF d.status # "ok" THEN Answer(d.status, d.st, fs, <<>>)
          ELSE IF ~api_validate_path(api_clean_path(path))
          THEN Answer(raised_in_endpoint("400"), d.st, fs, <<>>)
          ELSE IF api_clean_path(path) = WorkspaceRoot
          THEN Answer(raised_in_endpoint("400"), d.st, fs, <<>>)
          ELSE Only({Answer(IF r.reply.success THEN "200"
                            ELSE raised_in_endpoint("500"),
                            r.st, r.fs, r.sent) :
                     r \in {api_run(d.st, fs, pid,
                                Cmd("rm -rf", api_clean_path(path), ""))}}) :
          d \in {get_project_sandbox(st, pid)}})

\* the state a request of one project that was answered a leaves
ApiAnswered(op, pid, path, a) ==
    /\ containers' = a.st.containers
    /\ workspaces_cache' = a.st.workspaces
    /\ files' = [files EXCEPT ![pid] = a.fs]
    /\ last' = [Done(op, pid, a.status) EXCEPT !.arg = path, !.sent = a.sent]
    /\ UNCHANGED <<port_ranges, allocated_ports, engine, volumes, now, pending, tool, sweeper, wait>>

ApiExecuteCommand(pid, cmd, workdir) ==
    \E a \in {api_execute_command(ManagerState, files[pid], pid, cmd, workdir)} :
        ApiAnswered("api_execute", pid, workdir, a)

ApiDeleteFile(pid, path) ==
    \E a \in {api_delete_file(ManagerState, files[pid], pid, path)} :
        ApiAnswered("api_delete_file", pid, path, a)

NextTool ==
    \/ \E pid \in Projects, cmd \in UserCommands, workdir \in ToolPaths,
          in \in ToolInputs : ToolExec(pid, cmd, workdir, in)
    \/ \E pid \in Projects, path \in ToolPaths, in \in ToolInputs :
            ReadFile(pid, path, in)
    \/ \E pid \in Projects, path \in ToolPaths, content \in Contents,
          in \in ToolInputs : WriteFile(pid, path, content, in)
    \/ \E pid \in Projects, path \in ToolPaths, in \in ToolInputs :
            FileExists(pid, path, in)
    \/ \E pid \in Projects, path \in ToolPaths, in \in ToolInputs :
            DeleteFile(pid, path, in)
    \/ \E pid \in Projects, path \in ToolPaths, in \in ToolInputs :
            DeleteDirectory(pid, path, in)
    \/ \E pid \in Projects, path \in ToolPaths : ApiDeleteFile(pid, path)

\* the primitives of the tools of the projects, next to the file deletion of
\* the HTTP API
SpecTool == Init /\ [][NextTool]_vars

\* the paths in the requests of the HTTP API: a file, a path that leaves the
\* workspace, and two spellings of the workspace root
ApiPaths == {<<"a">>, DotDot, Slash, WorkspaceRoot}

\* the requests of the HTTP API, with sandboxes created, containers removed
\* by someone else and the process started again
NextApi ==
    \/ \E pid \in Projects, hours \in AutoStopHours, fault \in EngineFaults :
            CreateSandbox(pid, hours, fault, AllAnswer)
    \/ \E pid \in Projects : ApiGetSandbox(pid)
    \/ \E pid \in Projects, fault \in StartFaults :
            ApiStartSandbox(pid, fault, AllAnswer)
    \/ \E pid \in Projects : ApiStopSandbox(pid)
    \/ \E pid \in Projects : ApiDeleteSandbox(pid)
    \/ \E pid \in Projects, cmd \in UserCommands, workdir \in ApiPaths :
            ApiExecuteCommand(pid, cmd, workdir)
    \/ \E pid \in Projects, path \in ApiPaths : ApiDeleteFile(pid, path)
    \/ \E pid \in Projects : ExternalRemove(pid)
    \/ NewManager

SpecApi == Init /\ [][NextApi]_vars

\* ========================================================================
\* Properties
\* ========================================================================
ClaimedRanges ==
    [vnc |-> 15901..16000, novnc |-> 16080..16179,
     browser_api |-> 17788..17887, file_server |-> 18080..18179]

\* C1: on one manager, whatever operations ran, no host port is in the port
\* sets of two different sandboxes the manager holds, and every sandbox's
\* port for a role lies in that role's range (vnc 15901-16000, novnc
\* 16080-16179, browser_api 17788-17887, file_server 18080-18179).
C1_PortUniqueness ==
    /\ \A p, q \in Projects :
        (p # q /\ Cached(containers, p) /\ Cached(containers, q))
            => Range(containers[p].ports) \cap Range(containers[q].ports) = {}
    /\ \A p \in Projects : Cached(containers, p) =>
        \A r \in DOMAIN containers[p].ports :
            containers[p].ports[r] \in ClaimedRanges[r]

\* two sandboxes are held with a full port set each, one of them stopped when
\* the other was created
C1_Witness ==
    /\ last.op = "create" /\ last.result = "ok"
    /\ \E p, q \in Projects :
        /\ p # q
        /\ Cached(containers, p) /\ Cached(containers, q)
        /\ DOMAIN containers[p].ports = RoleSet
        /\ DOMAIN containers[q].ports = RoleSet
        /\ containers[p].ports["vnc"] > containers[q].ports["vnc"]
        /\ engine[q].exists /\ engine[q].status = "exited"

\* C2: a successful create_sandbox(pid) directly followed by a successful
\* delete_sandbox(pid) leaves the allocator's in-use set as it was before the
\* create.
C2_PortConservation ==
    (last.op = "delete" /\ last.result = "ok" /\ last.after = "create")
        => allocated_ports = last.pre

\* such a pair has run while another sandbox held ports
C2_Witness ==
    /\ last.op = "delete" /\ last.result = "ok" /\ last.after = "create"
    /\ allocated_ports # {}
    /\ \E q \in Projects : Cached(containers, q)

\* C3: allocate_ports either returns a port for each of the four roles, or
\* fails and leaves the in-use set exactly as it was before the call.
C3_AllocationAtomic ==
    [][last'.op = "allocate" =>
        LET a == allocate_ports(port_ranges, allocated_ports) IN
        \/ last'.result = "ok" /\ DOMAIN a.ports = RoleSet
        \/ last'.result # "ok" /\ allocated_ports' = allocated_ports]_vars

\* C4: when get_sandbox rebuilds a cache entry from a container of the engine
\* (cache miss), every host port recovered from the container is in the
\* allocator's in-use set afterwards.
C4_RecoveredPortsReserved ==
    [][\A pid \in Projects :
        (/\ last'.op = "get" /\ last'.pid = pid
         /\ ~Cached(containers, pid)
         /\ Cached(containers', pid))
        => Range(containers'[pid].ports) \subseteq allocated_ports']_vars

\* C5: when a new manager replaces the old one while a sandbox's container
\* runs, get_sandbox and list_sandboxes succeed for the sandbox and give the
\* role-to-host-port mapping that get_sandbox gave before, and the entry has
\* the volume name suna-workspace-<pid> as before.
C5_RecoveryKeepsPortsAndVolume ==
    [][last'.op = "new_manager" =>
        \A pid \in Projects :
            LET before == get_sandbox(containers, engine, pid)
                after == get_sandbox(containers', engine', pid)
                listed == list_sandboxes(containers', engine')
            IN  (Exists(engine, pid) /\ engine[pid].status = "running")
                => /\ before.result = "ok"
                   /\ after.result = "ok"
                   /\ after.view.ports = before.view.ports
                   /\ after.view.urls = before.view.urls
                   /\ after.containers[pid].volume_name = <<"suna-workspace", pid>>
                   /\ after.containers[pid].volume_name
                        = before.containers[pid].volume_name
                   /\ pid \in DOMAIN listed.sandboxes
                   /\ listed.sandboxes[pid].ports = before.view.ports
                   /\ listed.containers[pid].volume_name
                        = before.containers[pid].volume_name]_vars

\* a get_sandbox has rebuilt the entry of a running sandbox on a manager
\* whose allocator has handed out nothing
C5_Witness ==
    /\ last.op = "get" /\ last.result = "ok"
    /\ allocated_ports = {}
    /\ Cached(containers, last.pid)
    /\ DOMAIN containers[last.pid].ports = RoleSet
    /\ engine[last.pid].status = "running"

\* the auto_stop_at label of a container, as the sweep reads it
AutoStopAt(c) == fromisoformat(c.labels.auto_stop_at).value

\* C6: one cleanup_expired_sandboxes removes every container of the engine
\* whose suna.auto_stop_at is earlier than the current time, cached or not,
\* and removes none whose suna.auto_stop_at is in the future.
C6_SweepRemovesExpired ==
    [][last'.op = "cleanup" =>
        \A pid \in Projects : Exists(engine, pid) =>
            /\ AutoStopAt(engine[pid]) < now => ~Exists(engine', pid)
            /\ AutoStopAt(engine[pid]) > now => engine'[pid] = engine[pid]]_vars

\* C7: after a successful delete_sandbox(pid) the container and the volume
\* are gone from the engine, the sandbox's ports are free in the allocator,
\* the cache has no entry for pid, and get_sandbox(pid) fails with not-found.
C7_DeleteRemovesEverything ==
    [][\A pid \in Projects :
        (last'.op = "delete" /\ last'.pid = pid /\ last'.result = "ok")
        => /\ Cached(containers, pid)
           /\ ~Exists(engine', pid)
           /\ <<"suna-workspace", pid>> \notin volumes'
           /\ Range(containers[pid].ports) \cap allocated_ports' = {}
           /\ ~Cached(containers', pid)
           /\ get_sandbox(containers', engine', pid).result = "not_found"
           /\ get_sandbox(containers', engine', pid).containers = containers']_vars

\* a delete_sandbox has succeeded on a sandbox that held ports and a volume
\* while another sandbox stays
C7_Witness ==
    /\ last.op = "delete" /\ last.result = "ok"
    /\ \E q \in Projects :
        /\ q # last.pid
        /\ Cached(containers, q)
        /\ Exists(engine, q)
        /\ <<"suna-workspace", q>> \in volumes
        /\ Range(containers[q].ports) \subseteq allocated_ports
        /\ containers[q].ports # EmptyPorts

\* C8: of two consecutive delete_sandbox(pid) calls on an existing sandbox the
\* first succeeds and the second reports not-found, and the second changes
\* neither the allocator's in-use set nor any cache entry, container or volume.
C8_SecondDeleteIsNoOp ==
    [][\A pid \in Projects :
        (/\ last.op = "delete" /\ last.pid = pid /\ last.result = "ok"
         /\ last'.op = "delete" /\ last'.pid = pid)
        => /\ last'.result = "not_found"
           /\ allocated_ports' = allocated_ports
           /\ containers' = containers
           /\ engine' = engine
           /\ volumes' = volumes]_vars

\* a second delete_sandbox has directly followed a successful one on the same
\* project while another sandbox exists
C8_Witness ==
    /\ last.op = "delete" /\ last.after = "delete"
    /\ \E q \in Projects : q # last.pid /\ Cached(containers, q) /\ Exists(engine, q)

\* C9: delete_sandbox(pid) on a cached sandbox whose container is already gone
\* from the engine completes: it releases the ports and drops the cache entry.
C9_DeleteWithoutContainerCompletes ==
    [][\A pid \in Projects :
        (/\ last'.op = "delete" /\ last'.pid = pid
         /\ Cached(containers, pid)
         /\ ~Exists(engine, containers[pid].container))
        => /\ last'.result = "ok"
           /\ ~Cached(containers', pid)
           /\ Range(containers[pid].ports) \cap allocated_ports' = {}]_vars

\* C10: create_sandbox for a project that has a cache entry or whose container
\* exists in the engine is rejected, and the container, the volume, the cache
\* entry and the port allocation are as they were before the call.
C10_DuplicateCreateRejected ==
    [][\A pid \in Projects :
        (/\ last'.op = "create" /\ last'.pid = pid
         /\ (Cached(containers, pid) \/ Exists(engine, pid)))
        => /\ last'.result # "ok"
           /\ engine' = engine
           /\ containers' = containers
           /\ volumes' = volumes
           /\ allocated_ports' = allocated_ports]_vars

\* a create_sandbox has been refused for a project whose running container
\* the manager does not hold in its cache
C10_Witness ==
    /\ last.op = "create" /\ last.result = "name_conflict"
    /\ ~Cached(containers, last.pid)
    /\ Exists(engine, last.pid)
    /\ engine[last.pid].status = "running"

\* the ports a create_sandbox call holds when it fails: those it has just
\* allocated, or those it took into the readiness wait
PortsOfCall(pid) ==
    IF last'.op = "create"
    THEN allocate_ports(port_ranges, allocated_ports).ports
    ELSE pending[pid].ports

\* C11: when a create_sandbox call fails after its port allocation (ensuring
\* the volume, running the container, or the readiness wait ends with an
\* error), the ports of that call are not in use afterwards and no cache entry
\* was inserted for the project.
C11_FailedCreateReleasesPorts ==
    [][\A pid \in Projects :
        (/\ last'.pid = pid
         /\ \/ last'.op = "create" /\ last'.result \in {"engine_error", "name_conflict"}
            \/ last'.op = "create_return" /\ last'.result # "ok")
        => /\ Range(PortsOfCall(pid)) \cap allocated_ports' = {}
           /\ containers' = containers]_vars

\* C12: when a create_sandbox call for a project without a container fails,
\* no container named suna-sandbox-<pid> is in the engine afterwards.
C12_FailedCreateRemovesContainer ==
    [][\A pid \in Projects :
        (/\ last'.op = "create" /\ last'.pid = pid
         /\ last'.result = "engine_error"
         /\ ~Exists(engine, pid))
        => ~Exists(engine', pid)]_vars

\* C13: a create_sandbox called while the create of another project is in its
\* readiness wait, with some role's range used up, fails for want of ports,
\* starts no container and leaves the allocator's in-use set as it was.
C13_ExhaustedCreateLeavesNoTrace ==
    [][\A pid \in Projects :
        (/\ last'.op = "create" /\ last'.pid = pid
         /\ ~Cached(containers, pid)
         /\ \E q \in Projects : q # pid /\ pending[q].present
         /\ \E r \in RoleSet : first_free(port_ranges, allocated_ports, r) = {})
        => /\ last'.result = "ports_exhausted"
           /\ engine' = engine
           /\ pending' = pending
           /\ allocated_ports' = allocated_ports]_vars

\* C14: a create_sandbox called for a project whose create is in its readiness
\* wait fails, with the engine's name-conflict error when nothing else goes
\* wrong; the in-use set is afterwards as before the call, and the container,
\* the ports and the suspended call of the first create are unchanged; the
\* first create, when its wait returns, caches the sandbox with its ports,
\* which are still in use.
C14_SameProjectRace ==
    [][\A pid \in Projects :
        /\ (last'.op = "create" /\ last'.pid = pid /\ pending[pid].present)
            => /\ last'.result \in {"name_conflict", "engine_error"}
               /\ \A hours \in AutoStopHours :
                    create_until_wait(ManagerState, port_ranges, pid, hours,
                                      "none", now).result = "name_conflict"
               /\ allocated_ports' = allocated_ports
               /\ engine' = engine
               /\ pending' = pending
               /\ containers' = containers
        /\ (last'.op = "create_return" /\ last'.pid = pid /\ last'.result = "ok")
            => /\ Cached(containers', pid)
               /\ containers'[pid].ports = pending[pid].ports
               /\ Range(pending[pid].ports) \subseteq allocated_ports'
               /\ engine' = engine]_vars

\* the second create of a project has failed on the name while the first is
\* in its readiness wait with its ports and another sandbox is cached
C14_Witness ==
    /\ last.op = "create" /\ last.result = "name_conflict"
    /\ pending[last.pid].present
    /\ DOMAIN pending[last.pid].ports = RoleSet
    /\ Range(pending[last.pid].ports) \subseteq allocated_ports
    /\ Exists(engine, last.pid) /\ engine[last.pid].status = "running"
    /\ \E q \in Projects : q # last.pid /\ Cached(containers, q)

\* C15: stop_sandbox and delete_sandbox, called for a project that has no
\* cache entry while its labelled container exists in the engine, do not
\* report not-found but act on that container: after stop_sandbox it does
\* not run, after delete_sandbox it is gone.
C15_StopDeleteResolveLikeGet ==
    [][\A pid \in Projects :
        (/\ last'.op \in {"stop", "delete"} /\ last'.pid = pid
         /\ ~Cached(containers, pid)
         /\ Exists(engine, pid)
         /\ engine[pid].labels.project_id = pid)
        => /\ last'.result # "not_found"
           /\ last'.op = "stop" => engine'[pid].status # "running"
           /\ last'.op = "delete" => ~Exists(engine', pid)]_vars

\* C16: a volume suna-workspace-<pid> that exists is gone after a step only
\* when the step is a successful delete_sandbox(pid) or the expiry sweep; no
\* stop, start, get, list or create removes it; and stop_sandbox leaves every
\* cache entry, the in-use set and the volumes as they were.
C16_VolumeRemovedOnlyByDelete ==
    [][/\ \A pid \in Projects :
            (<<"suna-workspace", pid>> \in volumes
                /\ <<"suna-workspace", pid>> \notin volumes')
            => \/ last'.op = "delete" /\ last'.pid = pid /\ last'.result = "ok"
               \/ last'.op = "cleanup"
       /\ last'.op = "stop"
            => /\ containers' = containers
               /\ allocated_ports' = allocated_ports
               /\ volumes' = volumes]_vars

\* a stop_sandbox has stopped a cached sandbox, whose volume, cache entry and
\* ports are there
C16_Witness ==
    /\ last.op = "stop" /\ last.result = "ok"
    /\ Cached(containers, last.pid)
    /\ engine[last.pid].status = "exited"
    /\ <<"suna-workspace", last.pid>> \in volumes
    /\ containers[last.pid].ports # EmptyPorts
    /\ Range(containers[last.pid].ports) \subseteq allocated_ports

\* C17: after a successful create_sandbox(pid), list_sandboxes has an entry
\* under pid whose created_at is the container's suna.created_at label, to
\* the second.
C17_ListedCreatedAtIsLabel ==
    [][\A pid \in Projects :
        (last'.op = "create" /\ last'.pid = pid /\ last'.result = "ok")
        => LET listed == list_sandboxes(containers', engine').sandboxes IN
           /\ pid \in DOMAIN listed
           /\ listed[pid].created_at = engine'[pid].labels.created_at]_vars

\* C18: _wait_for_services returns normally however the probes answer; a
\* create_sandbox that got its container running ends with the sandbox cached
\* and returns, and a start_sandbox that started the container returns
\* without error, also when the wait ran into its timeout.
C18_ReadinessTimeoutIsSoft ==
    [][/\ \A probe \in Probes : WaitOutcome[probe].returned
       /\ \A pid \in Projects :
            /\ (/\ last'.op = "create" /\ last'.pid = pid
                /\ ~Exists(engine, pid)
                /\ Exists(engine', pid) /\ engine'[pid].status = "running")
               => /\ last'.result = "ok"
                  /\ Cached(containers', pid)
                  /\ containers'[pid].container = pid
            /\ (/\ last'.op = "start" /\ last'.pid = pid
                /\ Exists(engine, pid) /\ engine[pid].status # "running"
                /\ engine'[pid].status = "running")
               => last'.result = "ok"]_vars

\* a create_sandbox has cached a sandbox whose readiness wait ran to the end
\* of its budget
C18_Witness ==
    /\ last.op = "create" /\ last.result = "ok"
    /\ Cached(containers, last.pid)
    /\ containers[last.pid].created_at = now + ServiceBudget + SettleDelay
    /\ engine[last.pid].status = "running"

\* C19: a get_or_create_workspace or LocalSandbox.get_or_start_sandbox call
\* that returns has returned a workspace in status running, and the
\* sandbox's container runs; in every other case the call raises.
C19_GetOrCreateReturnsRunning ==
    (last.op \in {"get_or_create_workspace", "get_or_start_sandbox"}
        /\ last.result # "raised")
    => /\ last.result = "running"
       /\ Exists(engine, last.pid)
       /\ engine[last.pid].status = "running"

\* C20: when a Tool Base execute_command has dispatched its command, the
\* sandbox's container runs and the supervisor check of the tool's sandbox
\* has succeeded.
C20_DispatchOnlyWhenReady ==
    (last.op = "tool_execute_command" /\ last.result = "dispatched")
    => /\ Exists(engine, last.pid)
       /\ engine[last.pid].status = "running"
       /\ tool[last.pid].sandbox.present
       /\ tool[last.pid].sandbox.session_started

\* C21: an adapter execute_command on a sandbox whose container does not run
\* returns the failure structure with exit code -1, success false and a
\* stderr that names the container's status, and dispatches nothing.
C21_NotRunningIsStructuredFailure ==
    (last.op = "execute_command" /\ Exists(engine, last.pid)
        /\ engine[last.pid].status # "running")
    => /\ last.result = "failed"
       /\ last.reply = NotRunningReply(engine[last.pid].status)

\* C22 as stated: get_workspace returns None only when get_sandbox ends with
\* the not-found error; every other failure is propagated.
C22_NoneOnlyOnNotFound ==
    [][(last'.op = "get_workspace" /\ last'.result = "none")
        => get_sandbox(containers, engine, last'.pid).result = "not_found"]_vars

\* C22 as amended: get_workspace propagates no failure of get_sandbox; it
\* returns None exactly when get_sandbox fails, whatever the failure, and
\* a workspace with the view's status when it succeeds.
C22_NoneOnEveryFailure ==
    [][last'.op = "get_workspace"
        => LET g == get_sandbox(containers, engine, last'.pid) IN
           /\ last'.result # "raised"
           /\ g.result # "ok" => last'.result = "none"
           /\ g.result = "ok" => last'.result = g.view.status]_vars

\* get_workspace has returned None for a sandbox whose cached container
\* is gone from the engine
C22_Witness ==
    /\ last.op = "get_workspace"
    /\ last.result = "none"
    /\ Cached(containers, last.pid)
    /\ ~Exists(engine, last.pid)

\* C23: no adapter operation lets an error escape to its caller.
C23_AdapterNeverRaises ==
    last.op \in {"create_workspace", "get_workspace", "get_or_create_workspace",
                 "start_workspace", "execute_command"}
    => last.result # "raised"

\* C24: no Tool Base method raises to its caller.
C24_ToolBaseNeverRaises ==
    last.op \in {"tool_get_or_start_sandbox", "tool_execute_command"}
    => last.result # "raised"

\* C25: for every input path, the path clean_path returns (the Tool Base's
\* and the facade's) begins with /workspace and has no component "..".
C25_CleanPathStaysInWorkspace ==
    last.op \in {"clean_path", "api_clean_path"}
    => /\ startswith(last.out, WorkspaceRoot)
       /\ \A i \in DOMAIN split(last.out) : split(last.out)[i] # DotDot

\* ------------------------------------------------------------------------
\* The periodic cleanup tasks.  Each is a loop on the process's event loop:
\* a sweep, then a sleep.  "api" is cleanup_expired_sandboxes of local_api.py,
\* "manager" is start_cleanup_task of local_sandbox_manager.py
\* ------------------------------------------------------------------------
\* the sleeps of the two loops, in seconds
ApiSweepInterval == 300
ApiSweepBackoff == 60
TaskSweepInterval == 3600

\* the sleep after a sweep that went through
Interval(t) == IF t = "api" THEN ApiSweepInterval ELSE TaskSweepInterval

\* the sleep after a sweep that raised: the api loop sleeps in its except
\* branch, start_cleanup_task logs and goes on to its one sleep
Backoff(t) == IF t = "api" THEN ApiSweepBackoff ELSE TaskSweepInterval

\* what a sweep can meet: containers.list raises when the engine does not answer
SweepFaults == {"none", "list"}

SweepOp(t) == IF t = "api" THEN "sweep_api" ELSE "sweep_manager"

\* a sweep that went on with a suspended task would leave the event loop
\* to the other tasks
sweep_suspends(s) == FALSE

\* a task in a sweep holds the event loop: cleanup_expired_sandboxes awaits
\* only delete_sandbox, which awaits nothing, and the engine calls block
holds_loop(s) == s.pc = "sweeping"

LoopFree == \A t \in Sweepers : ~holds_loop(sweeper[t])

\* the sleep of task t is over and the event loop resumes it: the next
\* sweep begins
SweepWake(t) ==
    /\ LoopFree
    /\ sweeper[t].pc = "sleeping"
    /\ sweeper[t].wake <= now
    /\ sweeper' = [sweeper EXCEPT ![t].pc = "sweeping"]
    /\ last' = Done("wake", NoProject, "ok")
    /\ UNCHANGED <<port_ranges, allocated_ports, containers, engine, volumes, now,
                   pending, tool, files, workspaces_cache, wait>>

\* the sweep of task t, up to the sleep that follows it
SweepRun(t, fault) ==
    /\ sweeper[t].pc = "sweeping"
    /\ \E st \in {IF fault = "list" THEN ManagerState
                   ELSE cleanup_expired_sandboxes(ManagerState, now)} :
        /\ allocated_ports' = st.allocated
        /\ containers' = st.containers
        /\ engine' = st.engine
        /\ volumes' = st.volumes
        /\ files' = FilesIn(st.volumes)
    /\ sweeper' = [sweeper EXCEPT ![t] =
                      [pc |-> "sleeping",
                       wake |-> now + IF fault = "list" THEN Backoff(t)
                                      ELSE Interval(t)]]
    /\ last' = Done(SweepOp(t), NoProject, IF fault = "list" THEN "error" ELSE "ok")
    /\ UNCHANGED <<port_ranges, now, pending, tool, workspaces_cache, wait>>

\* sandboxes created and the clock going on while the two tasks sweep; a
\* call of the manager runs when no task holds the event loop
NextSweep ==
    \/ \E pid \in Projects, hours \in AutoStopHours :
            LoopFree /\ CreateSandbox(pid, hours, "none", AllAnswer)
    \/ Tick
    \/ \E t \in Sweepers : SweepWake(t)
    \/ \E t \in Sweepers, fault \in SweepFaults : SweepRun(t, fault)

SpecSweep == Init /\ [][NextSweep]_vars

\* the expiry sweep over sandboxes the manager created, sandboxes a manager
\* before it created, containers of others with a malformed expiry label, and
\* sandboxes whose container was removed behind its back; the containers are
\* made in the first hour
NextExpiry ==
    \/ \E pid \in Projects, hours \in AutoStopHours :
            now = 0 /\ CreateSandbox(pid, hours, "none", AllAnswer)
    \/ \E pid \in Projects : now = 0 /\ ExternalRun(pid)
    \/ \E pid \in Projects : ExternalRemove(pid)
    \/ NewManager
    \/ Tick
    \/ CleanupExpired

SpecExpiry == Init /\ [][NextExpiry]_vars

\* a tool base that fetches its sandbox handle, and the handle stopped and
\* the container removed in between
NextHandle ==
    \/ \E pid \in Projects, in \in CallInputs : ToolGetOrStartSandbox(pid, in)
    \/ \E pid \in Projects : SandboxStop(pid)
    \/ \E pid \in Projects : ExternalRemove(pid)

SpecHandle == Init /\ [][NextHandle]_vars

\* calls of the manager and commands of the adapter that overlap a
\* create_sandbox
NextObserve ==
    \/ NextConc
    \/ \E pid \in Projects : ExecuteCommand(pid)

SpecObserve == Init /\ [][NextObserve]_vars

\* ------------------------------------------------------------------------
\* _wait_for_services, probe by probe.  wait.t is the time since entry; the
\* probes answer at once and the sleeps take their length.  Every probe may
\* answer either way each time it is made
\* ------------------------------------------------------------------------
\* a pass that asks every service again
every_service(services_ready) == RoleSet

\* "if service not in services_ready"
not_yet_ready(services_ready) == RoleSet \ services_ready

\* the call is entered: start_time = time.time()
WaitEnter ==
    /\ wait.phase \in {"idle", "returned"}
    /\ wait' = [NoWait EXCEPT !.phase = "supervisor"]
    /\ last' = Done("wait_enter", NoProject, "ok")
    /\ UNCHANGED <<port_ranges, allocated_ports, containers, engine, volumes, now,
                   pending, tool, files, workspaces_cache, sweeper>>

\* one round of the loop of lines 431-440; answer: pgrep exits 0
WaitSupervisor(answer) ==
    /\ wait.phase = "supervisor"
    /\ wait' = IF ~(wait.t < SupervisorBudget)
               THEN [wait EXCEPT !.phase = "services"]
               ELSE IF answer
               THEN [wait EXCEPT !.phase = "services", !.supervisord_ready = TRUE]
               ELSE [wait EXCEPT !.t = @ + SupervisorPoll]
    /\ last' = Done("wait_supervisor", NoProject, "ok")
    /\ UNCHANGED <<port_ranges, allocated_ports, containers, engine, volumes, now,
                   pending, tool, files, workspaces_cache, sweeper>>

\* one round of the loop of lines 455-480; answers: the services whose port
\* nc finds open if it is asked
WaitServices(answers) ==
    /\ wait.phase = "services"
    /\ wait' = IF ~(wait.t < ServiceBudget)
               THEN [wait EXCEPT !.phase = "settle", !.timed_out = TRUE,
                                 !.probed = {}, !.seen_before = wait.services_ready]
               ELSE LET probed == not_yet_ready(wait.services_ready)
                        seen == wait.services_ready \cup (probed \cap answers)
                    IN  [wait EXCEPT
                           !.probed = probed,
                           !.seen_before = wait.services_ready,
                           !.services_ready = seen,
                           !.phase = IF probed \subseteq answers
                                     THEN "settle" ELSE "services",
                           !.t = IF probed \subseteq answers
                                 THEN @ ELSE @ + ServicePoll]
    /\ last' = Done("wait_services", NoProject, "ok")
    /\ UNCHANGED <<port_ranges, allocated_ports, containers, engine, volumes, now,
                   pending, tool, files, workspaces_cache, sweeper>>

\* line 483: the settling delay, then the call returns
WaitSettle ==
    /\ wait.phase = "settle"
    /\ wait' = [wait EXCEPT !.phase = "returned", !.t = @ + SettleDelay]
    /\ last' = Done("wait_return", NoProject, "ok")
    /\ UNCHANGED <<port_ranges, allocated_ports, containers, engine, volumes, now,
                   pending, tool, files, workspaces_cache, sweeper>>

NextWait ==
    \/ WaitEnter
    \/ \E answer \in BOOLEAN : WaitSupervisor(answer)
    \/ \E answers \in SUBSET RoleSet : WaitServices(answers)
    \/ WaitSettle

\* the calls of _wait_for_services; a call that can take a step takes it:
\* the probes answer and the sleeps end
SpecWait == Init /\ [][NextWait]_vars /\ WF_vars(NextWait)

\* the primitives of the tool base that take a path
PrimitiveOps ==
    {"exec", "read_file", "write_file", "file_exists", "delete_file",
     "delete_directory"}

\* C26: a primitive of the tool base whose path argument (the workdir of an
\* exec included), once cleaned, contains ".." or starts with "~" returns
\* its failure value and passes no command to the engine
C26_InvalidPathIsNotDispatched ==
    (/\ last.op \in PrimitiveOps
     /\ \/ contains(clean_path(last.arg), DotDot)
        \/ startswith(clean_path(last.arg), <<"~">>))
    => /\ last.result \in {"none", "false"}
       /\ last.sent = <<>>

\* C28: when write_file(p, c) has returned true, read_file(p) in the running
\* sandbox returns c followed by a newline and file_exists(p) returns true
C28_WriteThenRead ==
    (last.op = "write_file" /\ last.result = "true")
    => \A in \in ToolInputs :
          /\ read_file(ToolState(last.pid), port_ranges, last.pid, in, now,
                       last.arg)
                = [result |-> "content", out |-> <<last.text, "\n">>,
                   x |-> read_file(ToolState(last.pid), port_ranges, last.pid,
                                   in, now, last.arg).x]
          /\ file_exists(ToolState(last.pid), port_ranges, last.pid, in, now,
                         last.arg).result = "true"

\* the spellings of the workspace root
RootSpellings == {<<>>, Slash, WorkspaceRoot, WorkspaceRoot \o Slash}

\* C27: delete_directory of the tool base and DELETE /{pid}/files of the HTTP
\* API pass no removal command to the engine whose target is the workspace
\* root, and answer false / 400 a path that spells the root
C27_WorkspaceRootIsNeverRemoved ==
    last.op \in {"delete_directory", "api_delete_file"}
    => /\ \A i \in DOMAIN last.sent :
            last.sent[i].prog = "rm -rf"
            => normpath(last.sent[i].path) # WorkspaceRoot
       /\ (/\ last.arg \in RootSpellings
           /\ \/ last.op = "delete_directory"
              \/ get_workspace(ManagerState, last.pid).workspace.present)
            => last.result \in {"false", "400"}

\* C29: a request of the HTTP API for a project that has no sandbox, GET
\* /{pid} and the endpoints that resolve the project's sandbox first, is
\* answered 404
C29_NoSandboxIs404 ==
    (/\ last.op \in {"api_get", "api_execute", "api_delete_file"}
     /\ ~Exists(engine, last.pid))
    => last.result = "404"

\* C30: POST /{pid}/start, POST /{pid}/stop and DELETE /{pid} answer 200 when
\* the manager carried the operation out and 500 when it failed, and what
\* delete_sandbox returns after a deletion is true
C30_SuccessIsReported ==
    last.op \in {"api_start", "api_stop", "api_delete"}
    => /\ last.inner = "ok" => last.result = "200"
       /\ last.inner # "ok" => last.result = "500"
       /\ (last.op = "api_delete" /\ last.inner = "ok") => Truthy(ManagerReturn)

\* C31: at no time are two sweeps of cleanup_expired_sandboxes in progress,
\* and a sweep that raised leaves its task asleep until the back-off is over
C31_OneSweepAtATime ==
    /\ Cardinality({t \in Sweepers : sweeper[t].pc = "sweeping"}) <= 1
    /\ \A t \in Sweepers :
          (last.op = SweepOp(t) /\ last.result = "error")
          => sweeper[t] = [pc |-> "sleeping", wake |-> now + Backoff(t)]

\* a sweep is in progress while the sleep of the other task is over
C31_Witness ==
    \E t, u \in Sweepers :
        /\ t # u
        /\ sweeper[t].pc = "sweeping"
        /\ sweeper[u].pc = "sleeping" /\ sweeper[u].wake <= now
        /\ \E p \in Projects : Exists(engine, p)

\* C32: while the create_sandbox of a project is suspended in
\* _wait_for_services, no get_sandbox returns the view of the project and no
\* execute_command passes a command to its container
C32_NoPartialStartupObserved ==
    (last.pid \in Projects /\ pending[last.pid].present)
    => /\ last.op = "get" => last.result # "ok"
       /\ last.op = "execute_command" => last.result # "dispatched"

\* C33: a get_sandbox that misses the cache returns the view when the engine
\* has the project's container with the matching suna.project_id label,
\* whatever its status, and fails with the not-found error otherwise; a
\* start_sandbox that misses the cache does not fail in resolving a container
\* that is there
C33_CacheMissRecovers ==
    [][(last'.op \in {"get", "start"} /\ ~Cached(containers, last'.pid))
       => IF /\ Exists(engine, last'.pid)
             /\ engine[last'.pid].labels.project_id = last'.pid
             /\ fromisoformat(engine[last'.pid].labels.created_at).ok
          THEN last'.result \in {"ok", "engine_error"}
          ELSE last'.result = "not_found"]_vars
\* C34: a call of _wait_for_services that was entered returns, whatever the
\* probes answer.  The supervisor phase is left on the first probe that exits
\* 0 or once 30 s have passed since entry, the service phase when all four
\* ports have been seen ready or once 120 s have passed since entry, the call
\* returns 5 s after that, and no pass probes a port seen ready before
WaitBounds ==
    /\ wait.phase = "supervisor"
          => wait.t < SupervisorBudget + SupervisorPoll /\ ~wait.supervisord_ready
    /\ wait.phase = "services" => wait.t < ServiceBudget + ServicePoll
    /\ wait.phase \in {"settle", "returned"}
          => /\ wait.timed_out \/ wait.services_ready = RoleSet
             /\ wait.timed_out => wait.t >= ServiceBudget
    /\ wait.phase = "returned" => wait.t <= ServiceBudget + ServicePoll + SettleDelay
    /\ wait.probed \cap wait.seen_before = {}
    /\ wait.seen_before \subseteq wait.services_ready

C34_WaitTerminates ==
    /\ []WaitBounds
    /\ [][wait.phase = "settle" => wait'.t = wait.t + SettleDelay]_vars
    /\ (wait.phase = "supervisor") ~> (wait.phase = "returned")

\* a call returned on the timeout after one port had been seen ready and
\* later passes had probed the others
C34_Witness ==
    /\ wait.phase = "returned"
    /\ wait.timed_out
    /\ ~wait.supervisord_ready
    /\ wait.seen_before # {}
    /\ wait.services_ready # RoleSet
\* C35: start_sandbox on a sandbox whose container runs issues no start and
\* no readiness probe and changes nothing in the engine, the ports in use and
\* the volumes; on a sandbox whose container does not run it starts the
\* container and runs the readiness probe before it returns, unless the
\* engine refuses the start
C35_StartIsIdempotent ==
    [][(last'.op = "start" /\ Exists(engine, last'.pid)
          /\ engine[last'.pid].labels.project_id = last'.pid)
       => IF engine[last'.pid].status = "running"
          THEN /\ last'.result = "ok" /\ last'.after = "-"
               /\ engine' = engine /\ allocated_ports' = allocated_ports
               /\ volumes' = volumes
          ELSE \/ last'.result = "engine_error" /\ engine' = engine
               \/ /\ last'.result = "ok" /\ last'.after = "probed"
                  /\ engine'[last'.pid].status = "running"]_vars
\* C36: in one sweep a container whose suna.auto_stop_at label is malformed
\* is left as it is, and every expired sandbox that delete_sandbox can delete
\* (it is in the cache and its container exists) is deleted, whatever labels
\* the other containers carry and however the deletes of the others end
C36_SweepIsolatesFailures ==
    [][last'.op = "cleanup"
       => \A p \in Projects :
            /\ (Exists(engine, p) /\ ~fromisoformat(engine[p].labels.auto_stop_at).ok)
                  => engine'[p] = engine[p]
            /\ (/\ Exists(engine, p)
                /\ fromisoformat(engine[p].labels.auto_stop_at).ok
                /\ now > fromisoformat(engine[p].labels.auto_stop_at).value
                /\ Cached(containers, p))
                  => /\ ~Exists(engine', p)
                     /\ ~Cached(containers', p)
                     /\ allocated_ports' \cap Range(containers[p].ports) = {}
                     /\ containers[p].volume_name \notin volumes']_vars

\* a sweep deleted one expired sandbox although another container carried a
\* malformed label, or although the delete of another expired sandbox failed
C36_Witness ==
    /\ last.op = "cleanup"
    /\ \E q \in last.swept : ~Exists(engine, q) /\ ~Cached(containers, q)
    /\ \/ \E p \in Projects :
             Exists(engine, p) /\ ~fromisoformat(engine[p].labels.auto_stop_at).ok
       \/ \E p \in last.swept : Exists(engine, p)
\* C37: when the task of a create_sandbox is cancelled while it is suspended
\* in the readiness probe, the ports the call had allocated are released and
\* the cache has no entry for the project
C37_CancelledCreateReleasesPorts ==
    [][(last'.op = "create_return" /\ last'.result = "cancelled")
       => /\ allocated_ports' \cap Range(pending[last'.pid].ports) = {}
          /\ ~Cached(containers', last'.pid)]_vars
\* C38: whatever way create_sandbox, get_sandbox and delete_sandbox calls on
\* one manager overlap, every port of a cache entry is in use in the
\* PortManager and the container of the entry exists in the engine
C38_CacheEntriesAreLive ==
    \A p \in Projects :
        Cached(containers, p)
        => /\ Range(containers[p].ports) \subseteq allocated_ports
           /\ Exists(engine, containers[p].container)
\* C39: every path that clean_path returns and validate_path accepts (the
\* Tool Base's pair and the facade's) is /workspace itself or lies under the
\* directory /workspace
C39_AcceptedPathIsUnderWorkspace ==
    /\ (last.op = "clean_path" /\ validate_path(last.out))
          => last.out = WorkspaceRoot \/ startswith(last.out, WorkspaceRoot \o Slash)
    /\ (last.op = "api_clean_path" /\ api_validate_path(last.out))
          => last.out = WorkspaceRoot \/ startswith(last.out, WorkspaceRoot \o Slash)
\* C40: once stop() of a LocalSandbox has returned true, is_running of that
\* handle is false
C40_StoppedHandleIsNotRunning ==
    (last.op = "sandbox_stop" /\ last.result = "true")
    => ~is_running(tool[last.pid].sandbox)
====
